---- MODULE Spec2Model ----
(***************************************************************************)
(* BrainBolt API core: the four route handlers (format, mcq, flashcards,   *)
(* concept-booster), the rate limiters, the request validators and the     *)
(* parsers of the LLM reply.                                               *)
(*                                                                         *)
(* Conventions.                                                            *)
(*  - An optional value (a header, a JSON field that may be missing) is a  *)
(*    sequence: <<>> when absent, <<v>> when present.                      *)
(*  - A short string (a header segment, a card side, a question) is a      *)
(*    sequence of one-character strings; " " is the white-space character. *)
(*  - A request text is a descriptor [kind, len]: len is its length in     *)
(*    characters and kind names the family it belongs to (see Cleaned).    *)
(*  - A handler runs from one await point to the next in one action.       *)
(***************************************************************************)
EXTENDS Integers, Sequences, FiniteSets, TLC

VARIABLES
    now,         \* Date.now(), in milliseconds
    env,         \* process.env: [apiKey, useRedis, development, taskModel,
                 \* globalModel], fixed for a run
    cfg,         \* the universe of a run: endpoint, client, inputs, bounds
    req,         \* the requests being handled, one per slot
    flashStore,  \* flashcards/route.ts: rateLimitStore
    cbStore,     \* concept-booster/route.ts: rateLimitStore
    arrivals,    \* history: per endpoint and client, the window of arrivals
    memStore,    \* the store of one long-lived MemoryRateLimiter instance
    rl,          \* history of the calls made on that instance
    san,         \* a string under sanitizeInput: input, options, results
    log,         \* a call of logError: error, context, the line written
    ui,          \* concept-booster/page.tsx: the state of the page, and the
                 \* request it sent last (history)
    api          \* api-manager.ts: activeRequests of apiManager, and the
                 \* makeRequest calls made so far (history)

\* the state of the library functions that are exercised on their own
libVars == <<san, log, ui, api>>

\* the state of the route handlers and the rate limiters
serverVars ==
    <<now, env, cfg, req, flashStore, cbStore, arrivals, memStore, rl>>

vars == <<now, env, cfg, req, flashStore, cbStore, arrivals, memStore, rl, san, log,
         ui, api>>

----------------------------------------------------------------------------
(* Program constants *)

RATE_LIMIT_MAX_REQUESTS == 10
RATE_LIMIT_WINDOW_MS == 60000
DEBOUNCE_DELAY == 800            \* api-manager.ts: default delay of debounce, ms
MCQ_MAX_TEXT_LENGTH == 12000
MCQ_MAX_REQUEST_SIZE == 15000
FLASH_MAX_TEXT_LENGTH == 15000
MAX_TOPIC_LENGTH == 500
CB_MAX_REQUEST_SIZE == 2000
FORMAT_MAX_LENGTH == 50000
DEFAULT_NUM_QUESTIONS == 10
MIN_NUM_QUESTIONS == 1
MAX_NUM_QUESTIONS == 50
MS_PER_SECOND == 1000

(* Bounds of the model *)

MaxTicks == 2        \* clock advances per run
MaxArrivals == 11    \* requests of one client counted in one window
MaxLimit == 3        \* largest limit L passed to a limiter called directly
MaxExtraCalls == 2   \* calls counted in one window beyond the limit
MaxItems == 2        \* items of an LLM question or card list
MaxEnvArrivals == 2  \* requests per window under an environment variation
MaxSanLen == 2       \* characters of a string given to sanitizeInput
MaxLogDepth == 2     \* objects nested inside a value of the log context
MaxSlots == 2        \* requests of one client handled at the same time
MaxQuestions == 2    \* questions in the content of a concept-booster step
MaxDebounced == 4     \* calls of the debounced wrapper in a run
MaxClockTicks == 6    \* advances of the clock in a run of the debounced wrapper
MaxCalls == 3        \* makeRequest calls on apiManager in one run

----------------------------------------------------------------------------
(* Small helpers *)

Absent == <<>>
Some(x) == <<x>>
Has(o) == Len(o) > 0
Get(o) == o[1]
OrElse(o, d) == IF Has(o) THEN o[1] ELSE d

Min(a, b) == IF a < b THEN a ELSE b
Max(a, b) == IF a > b THEN a ELSE b

\* Math.ceil(a / b) for b > 0 and any integer a
CeilDiv(a, b) == -((-a) \div b)

Put(f, k, v) == [x \in DOMAIN f \cup {k} |-> IF x = k THEN v ELSE f[x]]

EmptyStore == [k \in {} |-> 0]

\* String.prototype.trim on a sequence of characters
RECURSIVE TrimLeft(_)
TrimLeft(s) == IF s # <<>> /\ Head(s) = " " THEN TrimLeft(Tail(s)) ELSE s

RECURSIVE TrimRight(_)
TrimRight(s) ==
    IF s # <<>> /\ s[Len(s)] = " " THEN TrimRight(SubSeq(s, 1, Len(s) - 1)) ELSE s

Trim(s) == TrimRight(TrimLeft(s))

\* String.prototype.toUpperCase on the answer letters that occur
ToUpperCase(c) ==
    CASE c = "a" -> "A" [] c = "b" -> "B" [] c = "c" -> "C" [] c = "d" -> "D"
      [] OTHER -> c

\* parseInt on a header value, a sequence of the characters "0".."9" and
\* "x": the value of its leading run of digits, or NaN when there is none.
\* NaN is -1 here: every use below is a comparison "> max", false for NaN.
DigitOf(c) ==
    CASE c = "0" -> 0 [] c = "1" -> 1 [] c = "2" -> 2 [] c = "3" -> 3
      [] c = "4" -> 4 [] c = "5" -> 5 [] c = "6" -> 6 [] c = "7" -> 7
      [] c = "8" -> 8 [] c = "9" -> 9

RECURSIVE DigitsValue(_, _)
DigitsValue(s, acc) ==
    IF s = <<>> \/ Head(s) = "x" THEN acc
    ELSE DigitsValue(Tail(s), acc * 10 + DigitOf(Head(s)))

NaN == 0 - 1
parseInt(s) == IF s = <<>> \/ Head(s) = "x" THEN NaN ELSE DigitsValue(s, 0)

----------------------------------------------------------------------------
(* Client identifier: getIp / getRateLimitKey.  The key prefix              *)
(* ("rate_limit:", "flashcards:", "concept-booster:") is the same for every *)
(* key of one store and is left out.  A forwarded-for header is the list of *)
(* its comma-separated segments.                                            *)

UnknownIp == <<"unknown">>

\* a header string is truthy unless it is the empty string
HeaderTruthy(h) == Has(h) /\ Get(h) # << <<>> >>

\* getIp looking at the real-ip header only
getIp_RealIpOnly(headers) ==
    IF Has(headers.xri) /\ Get(headers.xri) # <<>> THEN Get(headers.xri)
    ELSE UnknownIp

\* MemoryRateLimiter.getIp, and the address part of getRateLimitKey
getIp(headers) ==
    IF HeaderTruthy(headers.xff) THEN Trim(Get(headers.xff)[1])
    ELSE IF Has(headers.xri) /\ Get(headers.xri) # <<>> THEN Get(headers.xri)
    ELSE UnknownIp

----------------------------------------------------------------------------
(* Rate limiters *)

\* cleanup evicting also the entries whose window ends at this very instant
cleanup_Eager(store, t) ==
    [k \in {x \in DOMAIN store : store[x].resetTime > t} |-> store[k]]

\* MemoryRateLimiter.cleanup: evict every entry whose window has expired
cleanup(store, t) ==
    [k \in {x \in DOMAIN store : ~(store[x].resetTime < t)} |-> store[k]]

\* MemoryRateLimiter.check comparing the count with "> limit"
MemoryRateLimiterCheck_OffByOne(store, ip, t, rnd, limit, windowMs) ==
    LET s1 == IF rnd THEN cleanup(store, t) ELSE store
    IN  IF ip \notin DOMAIN s1 \/ s1[ip].resetTime < t
        THEN [store |-> Put(s1, ip, [count |-> 1, resetTime |-> t + windowMs]),
              result |-> [allowed |-> TRUE, remaining |-> limit - 1,
                          resetAt |-> t + windowMs]]
        ELSE IF s1[ip].count > limit
        THEN [store |-> s1,
              result |-> [allowed |-> FALSE, remaining |-> 0,
                          resetAt |-> s1[ip].resetTime]]
        ELSE [store |-> Put(s1, ip, [count |-> s1[ip].count + 1,
                                     resetTime |-> s1[ip].resetTime]),
              result |-> [allowed |-> TRUE,
                          remaining |-> limit - (s1[ip].count + 1),
                          resetAt |-> s1[ip].resetTime]]

\* MemoryRateLimiter.check on one instance's store.  rnd is Math.random() < 0.1.
MemoryRateLimiterCheck(store, ip, t, rnd, limit, windowMs) ==
    LET s1 == IF rnd THEN cleanup(store, t) ELSE store
    IN  IF ip \notin DOMAIN s1 \/ s1[ip].resetTime < t
        THEN [store |-> Put(s1, ip, [count |-> 1, resetTime |-> t + windowMs]),
              result |-> [allowed |-> TRUE, remaining |-> limit - 1,
                          resetAt |-> t + windowMs]]
        ELSE IF s1[ip].count >= limit
        THEN [store |-> s1,
              result |-> [allowed |-> FALSE, remaining |-> 0,
                          resetAt |-> s1[ip].resetTime]]
        ELSE [store |-> Put(s1, ip, [count |-> s1[ip].count + 1,
                                     resetTime |-> s1[ip].resetTime]),
              result |-> [allowed |-> TRUE,
                          remaining |-> limit - (s1[ip].count + 1),
                          resetAt |-> s1[ip].resetTime]]

\* getRateLimiter: a new limiter object, with a new empty store, on every call
getRateLimiter(e) ==
    [kind |-> IF e.useRedis THEN "redis" ELSE "memory", store |-> EmptyStore]

\* RedisRateLimiter.check: delegates to yet another new MemoryRateLimiter
RedisRateLimiterCheck(ip, t, rnd, limit, windowMs) ==
    MemoryRateLimiterCheck(EmptyStore, ip, t, rnd, limit, windowMs)

\* limiter.check(req, limit, windowMs) on the object getRateLimiter returned
LimiterCheck(limiter, ip, t, rnd, limit, windowMs) ==
    IF limiter.kind = "redis"
    THEN [store |-> limiter.store,
          result |-> RedisRateLimiterCheck(ip, t, rnd, limit, windowMs).result]
    ELSE MemoryRateLimiterCheck(limiter.store, ip, t, rnd, limit, windowMs)

\* checkRateLimit leaving the count of an open window as it was
checkRateLimit_LostUpdate(store, key, t, rnd) ==
    IF key \notin DOMAIN store \/ store[key].resetTime < t
    THEN [store |-> Put(store, key, [count |-> 1,
                                     resetTime |-> t + RATE_LIMIT_WINDOW_MS]),
          result |-> [allowed |-> TRUE,
                      remaining |-> RATE_LIMIT_MAX_REQUESTS - 1,
                      resetAt |-> t + RATE_LIMIT_WINDOW_MS]]
    ELSE [store |-> store,
          result |-> [allowed |-> store[key].count < RATE_LIMIT_MAX_REQUESTS,
                      remaining |-> 0,
                      resetAt |-> store[key].resetTime]]

\* flashcards/route.ts checkRateLimit: the entry is read before the cleanup
checkRateLimit(store, key, t, rnd) ==
    LET had == key \in DOMAIN store
        entry == IF had THEN store[key] ELSE [count |-> 0, resetTime |-> 0]
        s1 == IF rnd THEN cleanup(store, t) ELSE store
    IN  IF ~had \/ entry.resetTime < t
        THEN [store |-> Put(s1, key, [count |-> 1,
                                      resetTime |-> t + RATE_LIMIT_WINDOW_MS]),
              result |-> [allowed |-> TRUE,
                          remaining |-> RATE_LIMIT_MAX_REQUESTS - 1,
                          resetAt |-> t + RATE_LIMIT_WINDOW_MS]]
        ELSE IF entry.count >= RATE_LIMIT_MAX_REQUESTS
        THEN [store |-> s1,
              result |-> [allowed |-> FALSE, remaining |-> 0,
                          resetAt |-> entry.resetTime]]
        ELSE [store |-> Put(s1, key, [count |-> entry.count + 1,
                                      resetTime |-> entry.resetTime]),
              result |-> [allowed |-> TRUE,
                          remaining |-> RATE_LIMIT_MAX_REQUESTS - (entry.count + 1),
                          resetAt |-> entry.resetTime]]

\* checkRateLimit moving the end of an open window with every allowed request
cbCheckRateLimit_Sliding(store, key, t, rnd) ==
    IF key \notin DOMAIN store \/ store[key].resetTime < t
    THEN [store |-> Put(store, key, [count |-> 1,
                                     resetTime |-> t + RATE_LIMIT_WINDOW_MS]),
          result |-> [allowed |-> TRUE,
                      remaining |-> RATE_LIMIT_MAX_REQUESTS - 1,
                      resetAt |-> t + RATE_LIMIT_WINDOW_MS]]
    ELSE IF store[key].count >= RATE_LIMIT_MAX_REQUESTS
    THEN [store |-> store,
          result |-> [allowed |-> FALSE, remaining |-> 0,
                      resetAt |-> store[key].resetTime]]
    ELSE [store |-> Put(store, key, [count |-> store[key].count + 1,
                                     resetTime |-> t + RATE_LIMIT_WINDOW_MS]),
          result |-> [allowed |-> TRUE,
                      remaining |-> RATE_LIMIT_MAX_REQUESTS - (store[key].count + 1),
                      resetAt |-> t + RATE_LIMIT_WINDOW_MS]]

\* concept-booster/route.ts checkRateLimit: the same code over its own store
cbCheckRateLimit(store, key, t, rnd) ==
    LET had == key \in DOMAIN store
        entry == IF had THEN store[key] ELSE [count |-> 0, resetTime |-> 0]
        s1 == IF rnd THEN cleanup(store, t) ELSE store
    IN  IF ~had \/ entry.resetTime < t
        THEN [store |-> Put(s1, key, [count |-> 1,
                                      resetTime |-> t + RATE_LIMIT_WINDOW_MS]),
              result |-> [allowed |-> TRUE,
                          remaining |-> RATE_LIMIT_MAX_REQUESTS - 1,
                          resetAt |-> t + RATE_LIMIT_WINDOW_MS]]
        ELSE IF entry.count >= RATE_LIMIT_MAX_REQUESTS
        THEN [store |-> s1,
              result |-> [allowed |-> FALSE, remaining |-> 0,
                          resetAt |-> entry.resetTime]]
        ELSE [store |-> Put(s1, key, [count |-> entry.count + 1,
                                      resetTime |-> entry.resetTime]),
              result |-> [allowed |-> TRUE,
                          remaining |-> RATE_LIMIT_MAX_REQUESTS - (entry.count + 1),
                          resetAt |-> entry.resetTime]]

\* retry_after: Math.ceil((rateLimit.resetAt - Date.now()) / 1000)
RetryAfter(resetAt, t) == CeilDiv(resetAt - t, MS_PER_SECOND)

----------------------------------------------------------------------------
(* Request texts and the sanitizer as the routes use it.                    *)
(* A text is [kind, len]:                                                   *)
(*   "empty"  the empty string (also a missing field: body.text || "")      *)
(*   "blank"  len spaces                                                    *)
(*   "tags"   len characters of HTML tags only, such as <b></b>             *)
(*   "plain"  len characters of short ordinary words separated by single    *)
(*            spaces, with no markup and none of the blocked patterns       *)
(*   "padded" a plain text between one leading and one trailing space       *)

Text(kind, len) == [kind |-> kind, len |-> len]
EmptyText == Text("empty", 0)

\* text.trim().length === 0 on the raw text
RawTrimEmpty(t) == t.kind \in {"empty", "blank"}

\* sanitizeInput steps 1 to 11 and the trim of step 12: tags are removed,
\* outer white space is trimmed, a plain text is left as it is
Cleaned(t) ==
    CASE t.kind = "plain" -> t
      [] t.kind = "padded" -> Text("plain", t.len - 2)
      [] OTHER -> EmptyText

\* sanitizeInput step 12: substring(0, maxLength) when longer than maxLength
Truncated(t, maxLength) ==
    IF maxLength # 0 /\ t.len > maxLength THEN Text(t.kind, maxLength) ELSE t

sanitizeTextInput(input, maxLength) == Truncated(Cleaned(input), maxLength)

\* the texts of the model have no line breaks, so removeNewlines changes nothing
sanitizeSingleLineInput(input, maxLength) == Truncated(Cleaned(input), maxLength)

----------------------------------------------------------------------------
(* sanitizeInput on strings of characters.  A string is a sequence of      *)
(* characters; "NUL" stands for the control character U+0000 and "LF" for  *)
(* the line feed.  The strings are those over                               *)
(*   a  space  <  >  &  ;  [  '  NUL  LF                                    *)
(* and what the steps insert into them.  The steps whose patterns need a   *)
(* character outside these (the SQL, command and JavaScript keywords, the  *)
(* URL and path patterns, carriage returns, zero-width characters, the     *)
(* Bearer and sk- keys) leave such strings as they are: the letters of the *)
(* inserted entities and markers (amp, lt, gt, quot, x27, BLOCKED) form    *)
(* none of the keywords.                                                    *)

Blocked == <<"[", "B", "L", "O", "C", "K", "E", "D", "]">>

ApiKeyRemoved ==
    <<"[", "A", "P", "I", "_", "K", "E", "Y", "_", "R", "E", "M", "O", "V", "E",
      "D", "]">>

\* the concatenation of pieces[lo..hi]
RECURSIVE Flatten(_, _, _)
Flatten(pieces, lo, hi) ==
    IF lo > hi THEN <<>>
    ELSE IF lo = hi THEN pieces[lo]
    ELSE LET mid == (lo + hi) \div 2
         IN  Flatten(pieces, lo, mid) \o Flatten(pieces, mid + 1, hi)

Concat(pieces) == Flatten(pieces, 1, Len(pieces))

\* s.replace(/[set]/g, repl): the replacement is not scanned again
ReplaceEach(s, set, repl) ==
    Concat([i \in 1..Len(s) |-> IF s[i] \in set THEN repl ELSE <<s[i]>>])

\* step 1: /[\x00-\x08\x0B-\x0C\x0E-\x1F\x7F]/g
RemoveControl(s) == ReplaceEach(s, {"NUL"}, <<>>)

\* step 2: s.replace(/<[^>]+>/g, ""): a "<", one or more characters other
\* than ">", then ">".  The matches are found from left to right and each
\* ends at the first ">" after its "<", so position m is inside a match
\* exactly when a "<" at or before m and the first ">" at or after m have no
\* ">" and at least one character between them.
InTag(s, m) ==
    \E i \in 1..m, j \in m..Len(s) :
       /\ s[i] = "<"
       /\ s[j] = ">"
       /\ j >= i + 2
       /\ \A k \in i..(j - 1) : s[k] # ">"

RemoveTags(s) ==
    IF \A i \in 1..Len(s) : s[i] # "<" THEN s
    ELSE Concat([m \in 1..Len(s) |-> IF InTag(s, m) THEN <<>> ELSE <<s[m]>>])

\* step 2: & < > " ' are escaped, in this order
EscapeHtml(s) ==
    LET a == ReplaceEach(s, {"&"}, <<"&", "a", "m", "p", ";">>)
        b == ReplaceEach(a, {"<"}, <<"&", "l", "t", ";">>)
        c == ReplaceEach(b, {">"}, <<"&", "g", "t", ";">>)
        d == ReplaceEach(c, {"\""}, <<"&", "q", "u", "o", "t", ";">>)
    IN  ReplaceEach(d, {"'"}, <<"&", "#", "x", "2", "7", ";">>)

\* step 3, second pattern: a quote or a semicolon (the other alternatives
\* need a backslash, a dash, a slash or a star)
BlockSql(s) == ReplaceEach(s, {"'", ";"}, Blocked)

\* step 4, first pattern: the shell metacharacters ; & | ( ) { } [ ] (and
\* the backquote and the dollar sign)
BlockShell(s) ==
    ReplaceEach(s, {";", "&", "|", "(", ")", "{", "}", "[", "]"}, Blocked)

\* step 7: removeNewlines turns a line feed into a space; otherwise only
\* carriage returns are rewritten
Newlines(s, removeNewlines) ==
    IF removeNewlines THEN ReplaceEach(s, {"LF"}, <<" ">>) ELSE s

\* s.replace(/[set]{min,}/g, repl): every maximal run of min or more
\* characters of set is replaced
ReplaceRuns(s, set, min, repl) ==
    LET starts == {a \in 1..(Len(s) - min + 1) :
                      /\ a = 1 \/ s[a - 1] \notin set
                      /\ \A k \in a..(a + min - 1) : s[k] \in set}
        InRun(i) == \E a \in starts : a <= i /\ \A k \in a..i : s[k] \in set
    IN  IF starts = {} THEN s
        ELSE Concat([i \in 1..Len(s) |->
                        IF i \in starts THEN repl
                        ELSE IF InRun(i) THEN <<>>
                        ELSE <<s[i]>>])

\* step 8: / {3,}/g becomes two spaces
CollapseSpaces(s) == ReplaceRuns(s, {" "}, 3, <<" ", " ">>)

\* the characters of [A-Za-z0-9_-] that occur in the strings
KeyChars ==
    {"a", "m", "p", "l", "t", "g", "q", "u", "o", "x", "2", "7", "B", "L", "O",
     "C", "K", "E", "D", "A", "P", "I", "Y", "R", "M", "V", "_"}

API_KEY_MIN_LENGTH == 40

\* step 11, third pattern: /[A-Za-z0-9_-]{40,}/g
RemoveKeys(s) == ReplaceRuns(s, KeyChars, API_KEY_MIN_LENGTH, ApiKeyRemoved)

\* String.prototype.trim: spaces and line feeds at both ends
TrimWs(s) ==
    LET kept == {i \in 1..Len(s) : s[i] \notin {" ", "LF"}}
    IN  IF kept = {} THEN <<>>
        ELSE SubSeq(s, CHOOSE i \in kept : \A k \in kept : i <= k,
                       CHOOSE j \in kept : \A k \in kept : k <= j)

\* step 12: options.maxLength && sanitized.length > options.maxLength
Substring(s, maxLength) ==
    IF maxLength # 0 /\ Len(s) > maxLength THEN SubSeq(s, 1, maxLength) ELSE s

\* sanitizeInput(input, options); options.maxLength is 0 when it is not given
sanitizeInput(input, options) ==
    LET s1 == RemoveControl(input)
        s2 == IF options.allowHtml THEN s1 ELSE EscapeHtml(RemoveTags(s1))
        s3 == BlockSql(s2)
        s4 == BlockShell(s3)
        s7 == Newlines(s4, options.removeNewlines)
        s8 == CollapseSpaces(s7)
        s11 == RemoveKeys(s8)
    IN  Substring(TrimWs(s11), options.maxLength)

----------------------------------------------------------------------------
(* errorHandler: logError.  A JSON value is [t, v, props]: a string, a      *)
(* number written in digits, or an object with the sequence of its          *)
(* <<key, value>> properties.  A key is the sequence of its characters.     *)

StringValue(s) == [t |-> "string", v |-> s, props |-> <<>>]
NumberValue(digits) == [t |-> "number", v |-> digits, props |-> <<>>]
ObjectValue(props) == [t |-> "object", v |-> "", props |-> props]

Redacted == StringValue("[REDACTED]")

\* String.prototype.toLowerCase
UpperCase == <<"A", "B", "C", "D", "E", "F", "G", "H", "I", "J", "K", "L", "M",
               "N", "O", "P", "Q", "R", "S", "T", "U", "V", "W", "X", "Y", "Z">>
LowerCase == <<"a", "b", "c", "d", "e", "f", "g", "h", "i", "j", "k", "l", "m",
               "n", "o", "p", "q", "r", "s", "t", "u", "v", "w", "x", "y", "z">>

toLowerCase(s) ==
    [i \in 1..Len(s) |->
        IF \E n \in 1..Len(UpperCase) : UpperCase[n] = s[i]
        THEN LowerCase[CHOOSE n \in 1..Len(UpperCase) : UpperCase[n] = s[i]]
        ELSE s[i]]

\* String.prototype.includes
includes(s, w) == \E i \in 0..(Len(s) - Len(w)) : SubSeq(s, i + 1, i + Len(w)) = w

SensitiveWords ==
    { <<"p", "a", "s", "s", "w", "o", "r", "d">>,
      <<"s", "e", "c", "r", "e", "t">>,
      <<"k", "e", "y">>,
      <<"t", "o", "k", "e", "n">>,
      <<"a", "u", "t", "h">> }

SensitiveKey(key) == \E w \in SensitiveWords : includes(toLowerCase(key), w)

\* the replacer given to JSON.stringify
replacer(key, value) ==
    IF value.t = "string" /\ SensitiveKey(key) THEN Redacted ELSE value

\* JSON.stringify(value, replacer): the replacer is called with each key and
\* value, and the properties of what it returns are visited in turn
RECURSIVE stringify(_, _)
stringify(key, value) ==
    LET kept == replacer(key, value)
    IN  IF kept.t = "object"
        THEN ObjectValue([i \in 1..Len(kept.props) |->
                 <<kept.props[i][1],
                   stringify(kept.props[i][1], kept.props[i][2])>>])
        ELSE kept

KeyOf(name) ==
    CASE name = "error" -> <<"e", "r", "r", "o", "r">>
      [] name = "name" -> <<"n", "a", "m", "e">>
      [] name = "stack" -> <<"s", "t", "a", "c", "k">>
      [] name = "route" -> <<"r", "o", "u", "t", "e">>
      [] name = "apiKey" -> <<"a", "p", "i", "K", "e", "y">>
      [] name = "TOKEN" -> <<"T", "O", "K", "E", "N">>
      [] name = "Authorization" ->
            <<"A", "u", "t", "h", "o", "r", "i", "z", "a", "t", "i", "o", "n">>

\* logError(error, context): the value given to console.error.  error is
\* [isError, message]; context is the sequence of its properties.
logError(error, context, e) ==
    LET logData ==
            << <<KeyOf("error"),
                 StringValue(IF error.isError THEN error.message
                             ELSE "Unknown error")>>,
               <<KeyOf("name"), StringValue("Error")>> >>
            \o context
            \o (IF e.development /\ error.isError
                THEN << <<KeyOf("stack"), StringValue("Error: at POST")>> >>
                ELSE <<>>)
    IN  stringify(<<>>, ObjectValue(logData))

----------------------------------------------------------------------------
(* Request validators: validateInput of each route.  The result is         *)
(* [valid, error]; error is "" when valid.                                  *)

Valid == [valid |-> TRUE, error |-> ""]
Invalid(msg) == [valid |-> FALSE, error |-> msg]

ErrEmpty == "cannot be empty"
ErrNoContent == "no valid content after sanitization"
ErrTooLong == "exceeds maximum length"
ErrNumQuestions == "Number of questions must be between 1 and 50."
ErrDifficulty == "Difficulty must be one of: easy, medium, hard."
ErrLevel == "Invalid learning level."
ErrRequired == "Text is required. Please provide valid content."
ErrInvalidJson == "Invalid JSON in request body."
ErrTooLarge == "Request payload too large."
ErrRateLimit == "Rate limit exceeded. Please try again later."
ErrNoKey == "Server configuration error: API key not found"
ErrNoFormatted == "No formatted content received from AI"
ErrNoMcqs == "No MCQs were generated. The text may not contain enough information."
ErrNoCards == "No valid flashcards were generated."

ValidationErrors ==
    {ErrEmpty, ErrNoContent, ErrTooLong, ErrNumQuestions, ErrDifficulty,
     ErrLevel, ErrRequired}

validDifficulties == {"easy", "medium", "hard"}

flashValidLevels ==
    {"Class 6-8", "Class 9-10", "Class 11-12 (Intermediate)",
     "University Level", "Professional / Advanced", "Other"}

cbValidLevels ==
    {"Class 6-8", "Class 9-10", "Class 11-12 (FSc/Intermediate)",
     "University Level", "Beginner Adult", "Advanced Learner", "Other"}

\* mcq/route.ts validateInput(text, numQuestions, difficulty)
mcqValidateInput(text, numQuestions, difficulty) ==
    LET sanitized == sanitizeTextInput(text, MCQ_MAX_TEXT_LENGTH)
    IN  IF RawTrimEmpty(text) THEN Invalid(ErrEmpty)
        ELSE IF sanitized.len = 0 THEN Invalid(ErrNoContent)
        ELSE IF sanitized.len > MCQ_MAX_TEXT_LENGTH THEN Invalid(ErrTooLong)
        ELSE IF numQuestions < MIN_NUM_QUESTIONS \/ numQuestions > MAX_NUM_QUESTIONS
             THEN Invalid(ErrNumQuestions)
        ELSE IF difficulty \notin validDifficulties THEN Invalid(ErrDifficulty)
        ELSE Valid

\* flashcards/route.ts validateInput(text, level)
flashValidateInput(text, level) ==
    LET sanitized == sanitizeTextInput(text, FLASH_MAX_TEXT_LENGTH)
    IN  IF RawTrimEmpty(text) THEN Invalid(ErrEmpty)
        ELSE IF sanitized.len = 0 THEN Invalid(ErrNoContent)
        ELSE IF sanitized.len > FLASH_MAX_TEXT_LENGTH THEN Invalid(ErrTooLong)
        ELSE IF level \notin flashValidLevels THEN Invalid(ErrLevel)
        ELSE Valid

\* concept-booster/route.ts validateInput(topic, learningLevel, ...)
cbValidateInput(topic, learningLevel) ==
    LET sanitized == sanitizeTextInput(topic, MAX_TOPIC_LENGTH)
    IN  IF RawTrimEmpty(topic) THEN Invalid(ErrEmpty)
        ELSE IF sanitized.len = 0 THEN Invalid(ErrNoContent)
        ELSE IF sanitized.len > MAX_TOPIC_LENGTH THEN Invalid(ErrTooLong)
        ELSE IF learningLevel \notin cbValidLevels THEN Invalid(ErrLevel)
        ELSE Valid

\* the declared maximum text length of an endpoint
MaxTextLength(ep) ==
    CASE ep = "mcq" -> MCQ_MAX_TEXT_LENGTH
      [] ep = "flashcards" -> FLASH_MAX_TEXT_LENGTH
      [] ep = "concept-booster" -> MAX_TOPIC_LENGTH
      [] OTHER -> FORMAT_MAX_LENGTH

----------------------------------------------------------------------------
(* Responses.  One record shape for every endpoint; a field a response     *)
(* does not carry keeps the value it has in NoResponse.                     *)

NoResponse ==
    [status |-> 0,
     error |-> "",              \* body.error
     error_code |-> Absent,     \* body.error_code, passed through from the LLM
     code |-> "",               \* body.code, set by the catch-all handler
     retry_after |-> Absent,    \* body.retry_after, in seconds
     items |-> <<>>,            \* body.mcqs or body.flashcards
     total_cards |-> 0,         \* body.metadata.total_cards
     tokens |-> 0,              \* body.source_tokens or metadata.tokens_estimate
     remaining |-> Absent,      \* the X-RateLimit-Remaining header
     thrown |-> Absent]         \* the error that reached the catch block

ErrorResponse(status, msg) == [NoResponse EXCEPT !.status = status, !.error = msg]

\* a thrown value: an Error object with its message, or any other value
ErrorOf(message) == [isError |-> TRUE, message |-> message]
NonError(value) == [isError |-> FALSE, message |-> value]

\* toSafeError passing the error's own message on in every mode
toSafeError_Leaky(error, defaultMessage, e) ==
    IF error.isError
    THEN [message |-> error.message, statusCode |-> 500, code |-> "INTERNAL_ERROR"]
    ELSE [message |-> defaultMessage, statusCode |-> 500, code |-> "UNKNOWN_ERROR"]

\* errorHandler toSafeError(error, defaultMessage); e is process.env
toSafeError(error, defaultMessage, e) ==
    IF error.isError
    THEN [message |-> IF e.development THEN error.message ELSE defaultMessage,
          statusCode |-> 500, code |-> "INTERNAL_ERROR"]
    ELSE [message |-> defaultMessage, statusCode |-> 500, code |-> "UNKNOWN_ERROR"]

\* the default message each route passes to toSafeError
DefaultMessage(ep) ==
    CASE ep = "mcq" -> "Failed to generate MCQs. Please try again."
      [] ep = "flashcards" -> "Failed to generate flashcards. Please try again."
      [] ep = "concept-booster" -> "Failed to process request. Please try again."
      [] OTHER -> "Failed to format text. Please try again."

\* throw new Error(message), on its way to the catch block of POST
Throw(message) == [NoResponse EXCEPT !.thrown = Some(ErrorOf(message))]

\* the catch block of every POST: the body is {error: safeError.message,
\* code: safeError.code} (safeError.details is never set)
CaughtResponse(error, defaultMessage, e) ==
    LET safeError == toSafeError(error, defaultMessage, e)
    IN  [NoResponse EXCEPT !.status = safeError.statusCode,
                           !.error = safeError.message,
                           !.code = safeError.code,
                           !.thrown = Some(error)]

\* a response returned in the try block, or the one the catch block builds
Catch(resp, ep, e) ==
    IF Has(resp.thrown) THEN CaughtResponse(Get(resp.thrown), DefaultMessage(ep), e)
    ELSE resp

ErrNoLlmResponse == "No response received from LLM"
ErrMcqParse == "Failed to parse MCQ response: Unexpected token"
ErrMcqFormat ==
    "Failed to parse MCQ response: Invalid response format: expected status OK with mcqs array or error object"
ErrMcqNoQuestion == "Failed to parse MCQ response: Question is missing question text"
ErrMcqOptions == "Failed to parse MCQ response: Question must have exactly 4 options"
ErrMcqCorrect == "Failed to parse MCQ response: Question must have a valid correct answer"
ErrParse == "Failed to parse response: Unexpected token"
ErrFormat == "Failed to parse response: Invalid response format"
ErrBodySyntax == "Unexpected token in JSON"

----------------------------------------------------------------------------
(* The LLM reply and its parsing.                                           *)
(* A reply is [kind, fence, prose, json, err]:                                   *)
(*   kind   "throw" (the upstream call failed with the message err),        *)
(*          "empty" (no content) or "text"                                  *)
(*   fence  "none", "json" (wrapped in ```json ... ```) or "bare" (``` ```) *)
(*   prose  the text starts with a sentence before the JSON                 *)
(*   json   [shape, status, error_code, message, list, tokens]; shape is    *)
(*          "object", "array" (a bare top-level array, held in list) or     *)
(*          "garbage" (not JSON)                                            *)

ParseFailed == [ok |-> FALSE]
Parsed(j) == [ok |-> TRUE, json |-> j]

\* mcq and flashcards: strip a leading code fence, then JSON.parse
FenceParse(reply) ==
    IF reply.prose \/ reply.json.shape = "garbage" THEN ParseFailed
    ELSE Parsed(reply.json)

\* concept-booster: the text from the first "{" to the last "}", then
\* JSON.parse.  A bare array has no status field whatever the match keeps of
\* it, so it ends like a text that does not parse.
BraceParse(reply) ==
    IF reply.json.shape = "object" THEN Parsed(reply.json) ELSE ParseFailed

\* x || d for an optional string
OrDefault(o, d) == IF Has(o) /\ Get(o) # "" THEN Get(o) ELSE d

InsufficientContext == "INSUFFICIENT_CONTEXT"

\* mcq/route.ts 310-331: a reply with status ERROR
mcqErrorReply(j) ==
    LET errorCode == OrDefault(j.error_code, "UNKNOWN_ERROR")
        errorMessage == OrDefault(j.message, "Failed to generate MCQs")
    IN  [ErrorResponse(IF errorCode = InsufficientContext THEN 400 ELSE 500,
                       errorMessage)
            EXCEPT !.error_code = Some(errorCode)]

\* the flashcards error branch answering with its own message
flashErrorReply_OwnMessage(j) ==
    [NoResponse EXCEPT !.status = 400, !.error = "Failed to generate flashcards",
                       !.error_code = j.error_code]

\* flashcards/route.ts 333-341
flashErrorReply(j) ==
    [ErrorResponse(400, OrDefault(j.message, "Failed to generate flashcards"))
        EXCEPT !.error_code = j.error_code]

\* concept-booster/route.ts 528-536
cbErrorReply(j) ==
    [ErrorResponse(400, OrDefault(j.message, "Failed to generate content"))
        EXCEPT !.error_code = j.error_code]

\* the map callback without its check of the number of options
mcqItemValid_NoOptionCheck(item) ==
    /\ item.question # <<>>
    /\ item.correct # ""
    /\ ToUpperCase(item.correct) \in {"A", "B", "C", "D"}

\* the checks that make the map callback throw (mcq/route.ts 349-366)
mcqItemValid(item) ==
    /\ item.question # <<>>
    /\ Len(item.options) = 4
    /\ item.correct # ""
    /\ ToUpperCase(item.correct) \in {"A", "B", "C", "D"}

\* the message of the first throw of the map callback for an invalid item
mcqItemError(item) ==
    IF item.question = <<>> THEN ErrMcqNoQuestion
    ELSE IF Len(item.options) # 4 THEN ErrMcqOptions
    ELSE ErrMcqCorrect

\* the first item of a list that makes the map callback throw
FirstInvalid(items) ==
    items[CHOOSE i \in 1..Len(items) :
             /\ ~mcqItemValid(items[i])
             /\ \A j \in 1..(i - 1) : mcqItemValid(items[j])]

\* the object the map callback returns; dflt is 0 in the status-OK path and
\* index + 1 in the legacy path
mcqFormatItem(item, dflt) ==
    [id |-> IF item.id # 0 THEN item.id ELSE dflt,
     question |-> Trim(item.question),
     options |-> [i \in 1..Len(item.options) |-> Trim(item.options[i])],
     correct |-> ToUpperCase(item.correct)]

\* Math.ceil(sanitizedText.length / 4)
TokenEstimate(len) == CeilDiv(len, 4)

\* the success response of the mcq route, with its rate-limit header
mcqSuccess(mcqs, tokens, rate) ==
    [NoResponse EXCEPT !.status = 200, !.items = mcqs, !.tokens = tokens,
                       !.remaining = Some(rate.remaining)]

\* mcq/route.ts 334-398: status OK with an mcqs array
mcqOkReply(j, sanitizedLen, rate) ==
    LET mcqsArray == Get(j.list)
    IN  IF Len(mcqsArray) = 0 THEN ErrorResponse(400, ErrNoMcqs)
        ELSE IF \E i \in 1..Len(mcqsArray) : ~mcqItemValid(mcqsArray[i])
        THEN Throw(mcqItemError(FirstInvalid(mcqsArray)))
        ELSE mcqSuccess([i \in 1..Len(mcqsArray) |-> mcqFormatItem(mcqsArray[i], 0)],
                        IF Has(j.tokens) /\ Get(j.tokens) # 0
                        THEN Get(j.tokens) ELSE TokenEstimate(sanitizedLen),
                        rate)

\* mcq/route.ts 401-446: a bare top-level array
mcqLegacyReply(j, numQuestions, sanitizedLen, rate) ==
    LET all == Get(j.list)
        sliced == SubSeq(all, 1, Min(Len(all), Max(numQuestions, 0)))
    IN  IF \E i \in 1..Len(sliced) : ~mcqItemValid(sliced[i])
        THEN Throw(mcqItemError(FirstInvalid(sliced)))
        ELSE mcqSuccess([i \in 1..Len(sliced) |-> mcqFormatItem(sliced[i], i)],
                        TokenEstimate(sanitizedLen), rate)

\* mcq/route.ts 290-457: from the completion to the response
mcqParseReply(reply, numQuestions, sanitizedLen, rate) ==
    IF reply.kind = "throw" THEN Throw(reply.err)
    ELSE IF reply.kind = "empty" THEN Throw(ErrNoLlmResponse)
    ELSE LET p == FenceParse(reply)
         IN  IF ~p.ok THEN Throw(ErrMcqParse)
             ELSE IF p.json.shape = "object" /\ p.json.status = Some("ERROR")
                  THEN mcqErrorReply(p.json)
             ELSE IF p.json.shape = "object" /\ p.json.status = Some("OK")
                     /\ Has(p.json.list)
                  THEN mcqOkReply(p.json, sanitizedLen, rate)
             ELSE IF p.json.shape = "array"
                  THEN mcqLegacyReply(p.json, numQuestions, sanitizedLen, rate)
             ELSE Throw(ErrMcqFormat)

\* the map callback of flashcards/route.ts 345-349
flashFormatCard(card, index) ==
    [id |-> IF card.id # 0 THEN card.id ELSE index,
     type |-> OrDefault(card.type, "concept"),
     front |-> Trim(card.front),
     back |-> Trim(card.back)]

\* the filter callback looking at the front only
flashKeep_FrontOnly(card) == card.front # <<>>

\* the filter callback of flashcards/route.ts 350
flashKeep(card) == card.front # <<>> /\ card.back # <<>>

\* flashcards/route.ts 344-387: status OK with a flashcards array
flashOkReply(j, sanitizedLen, rate) ==
    LET raw == Get(j.list)
        flashcards == SelectSeq([i \in 1..Len(raw) |-> flashFormatCard(raw[i], i)],
                                flashKeep)
    IN  IF Len(flashcards) = 0 THEN ErrorResponse(400, ErrNoCards)
        ELSE [NoResponse EXCEPT
                !.status = 200, !.items = flashcards,
                !.total_cards = Len(flashcards),
                !.tokens = IF Has(j.tokens) /\ Get(j.tokens) # 0
                           THEN Get(j.tokens) ELSE TokenEstimate(sanitizedLen),
                !.remaining = Some(rate.remaining)]

\* flashcards/route.ts 315-398
flashParseReply(reply, sanitizedLen, rate) ==
    IF reply.kind = "throw" THEN Throw(reply.err)
    ELSE IF reply.kind = "empty" THEN Throw(ErrNoLlmResponse)
    ELSE LET p == FenceParse(reply)
         IN  IF ~p.ok THEN Throw(ErrParse)
             ELSE IF p.json.shape = "object" /\ p.json.status = Some("ERROR")
                  THEN flashErrorReply(p.json)
             ELSE IF p.json.shape = "object" /\ p.json.status = Some("OK")
                     /\ Has(p.json.list)
                  THEN flashOkReply(p.json, sanitizedLen, rate)
             ELSE Throw(ErrFormat)

\* concept-booster/route.ts 513-561: a status-OK reply is returned as it is
cbParseReply(reply, rate) ==
    IF reply.kind = "throw" THEN Throw(reply.err)
    ELSE IF reply.kind = "empty" THEN Throw(ErrNoLlmResponse)
    ELSE LET p == BraceParse(reply)
         IN  IF ~p.ok THEN Throw(ErrParse)
             ELSE IF p.json.status = Some("ERROR") THEN cbErrorReply(p.json)
             ELSE IF p.json.status = Some("OK")
                  THEN [NoResponse EXCEPT !.status = 200,
                                          !.remaining = Some(rate.remaining)]
             ELSE Throw(ErrFormat)

\* format/route.ts 93-106
formatReply(reply) ==
    IF reply.kind = "throw" THEN Throw(reply.err)
    ELSE IF reply.kind = "empty" THEN ErrorResponse(500, ErrNoFormatted)
    ELSE [NoResponse EXCEPT !.status = 200]

----------------------------------------------------------------------------
(* A request being handled.                                                 *)
(*   pc        "idle", "check" (mcq: awaiting limiter.check), "json"        *)
(*             (awaiting req.json()), "llm" (awaiting the completion),      *)
(*             "done" (the response is built)                               *)
(*   headers, jsonOk, body   the request as it arrived; jsonOk is whether   *)
(*             its body parses as JSON                                      *)
(*   rate, numQuestions, sanitizedLen   the handler's local variables       *)
(*   reply     the completion the upstream gave                             *)
(*   resp      the response                                                 *)
(*   upstreamCalls, jsonParsed, validated, nth   history: upstream calls    *)
(*             made, req.json() called, validateInput called, and the       *)
(*             request's ordinal in its client's window of arrivals         *)

NoHeaders == [xff |-> Absent, xri |-> Absent, cl |-> Absent]

NoBody ==
    [text |-> EmptyText, num_questions |-> Absent, difficulty |-> Absent,
     learning_level |-> Absent, model |-> Absent]

NoRate == [allowed |-> TRUE, remaining |-> 0, resetAt |-> 0]

NoJson ==
    [shape |-> "garbage", status |-> Absent, error_code |-> Absent,
     message |-> Absent, list |-> Absent, tokens |-> Absent]

NoReply ==
    [kind |-> "empty", fence |-> "none", prose |-> FALSE, json |-> NoJson,
     err |-> ""]

Idle ==
    [pc |-> "idle", ep |-> "", headers |-> NoHeaders, jsonOk |-> TRUE,
     body |-> NoBody, rate |-> NoRate, numQuestions |-> 0, sanitizedLen |-> 0,
     reply |-> NoReply, resp |-> NoResponse,
     model |-> "",
     upstreamCalls |-> 0, jsonParsed |-> FALSE, validated |-> FALSE, nth |-> 0]

Respond(r, resp) == [r EXCEPT !.pc = "done", !.resp = resp]

\* x || d for an optional number
NumOr(o, d) == IF Has(o) /\ Get(o) # 0 THEN Get(o) ELSE d

\* x || d for an optional string (a level or a difficulty)
StrOr(o, d) == IF Has(o) /\ Get(o) # "" THEN Get(o) ELSE d

\* contentLength && parseInt(contentLength) > max
TooLarge(headers, max) ==
    Has(headers.cl) /\ Get(headers.cl) # <<>> /\ parseInt(Get(headers.cl)) > max

RateLimited(r, t) ==
    Respond(r, [ErrorResponse(429, ErrRateLimit)
                   EXCEPT !.retry_after = Some(RetryAfter(r.rate.resetAt, t))])

\* the upstream call: client.chat.completions.create({model, ...})
CallUpstream(r, model) ==
    [r EXCEPT !.pc = "llm", !.upstreamCalls = @ + 1, !.model = model]

TaskOf(ep) ==
    CASE ep = "mcq" -> "mcqs"
      [] ep = "flashcards" -> "flashcards"
      [] ep = "concept-booster" -> "concept_booster"
      [] OTHER -> "formatter"

defaultModels(task) ==
    IF task = "concept_booster" THEN "meta-llama/llama-3.1-70b-instruct"
    ELSE "x-ai/grok-4.1-fast"

\* modelRouter.ts getModel: task override || global override || default.
\* e.taskModel is the override of the task the run's endpoint performs.
getModel(task, e) == OrDefault(e.taskModel, OrDefault(e.globalModel, defaultModels(task)))

\* if (body.model && body.model !== "auto") modelConfig.model = body.model
RequestModel(task, body, e) ==
    IF Has(body.model) /\ Get(body.model) # "" /\ Get(body.model) # "auto"
    THEN Get(body.model)
    ELSE getModel(task, e)

\* the models the forms offer (MCQForm.tsx AVAILABLE_MODELS)
AVAILABLE_MODELS ==
    {"auto", "x-ai/grok-4.1-fast", "x-ai/grok-4.1",
     "google/gemini-2.0-flash-exp:free"}

----------------------------------------------------------------------------
(* mcq/route.ts POST *)

\* lines 91-92: a new limiter, and its check, up to the await
mcqStart(r, t, rnd, e) ==
    [r EXCEPT !.pc = "check",
              !.rate = LimiterCheck(getRateLimiter(e), getIp(r.headers), t, rnd,
                                    RATE_LIMIT_MAX_REQUESTS,
                                    RATE_LIMIT_WINDOW_MS).result]

\* the size check made after the body was read
mcqAfterCheck_SizeAfterJson(r, t) ==
    IF ~r.rate.allowed
    THEN Respond(r, [ErrorResponse(429, ErrRateLimit)
                       EXCEPT !.retry_after = Some(CeilDiv(r.rate.resetAt - t,
                                                           MS_PER_SECOND))])
    ELSE IF Has(r.headers.cl) /\ Get(r.headers.cl) # <<>>
            /\ parseInt(Get(r.headers.cl)) > MCQ_MAX_REQUEST_SIZE
    THEN [r EXCEPT !.pc = "done", !.jsonParsed = TRUE,
                   !.resp = ErrorResponse(413, ErrTooLarge)]
    ELSE [r EXCEPT !.pc = "json", !.jsonParsed = TRUE]

\* lines 94-116: the 429, the 413, then req.json() up to the await
mcqAfterCheck(r, t) ==
    IF ~r.rate.allowed THEN RateLimited(r, t)
    ELSE IF TooLarge(r.headers, MCQ_MAX_REQUEST_SIZE)
    THEN Respond(r, ErrorResponse(413, ErrTooLarge))
    ELSE [r EXCEPT !.pc = "json", !.jsonParsed = TRUE]

\* the mcq handler calling the upstream before it looks at the validation
mcqAfterJson_CallFirst(r, e) ==
    IF ~r.jsonOk THEN [r EXCEPT !.pc = "done",
                                !.resp = ErrorResponse(400, ErrInvalidJson)]
    ELSE LET validation ==
                 mcqValidateInput(r.body.text,
                                  NumOr(r.body.num_questions, DEFAULT_NUM_QUESTIONS),
                                  StrOr(r.body.difficulty, "medium"))
             v == [r EXCEPT !.validated = TRUE, !.upstreamCalls = @ + 1]
         IN  IF ~validation.valid
             THEN [v EXCEPT !.pc = "done",
                            !.resp = ErrorResponse(400, validation.error)]
             ELSE [v EXCEPT !.pc = "llm",
                            !.sanitizedLen =
                                sanitizeTextInput(r.body.text, MCQ_MAX_TEXT_LENGTH).len,
                            !.numQuestions =
                                NumOr(r.body.num_questions, DEFAULT_NUM_QUESTIONS)]

\* lines 117-288: validation, the credential, then the upstream call
mcqAfterJson(r, e) ==
    IF ~r.jsonOk THEN Respond(r, ErrorResponse(400, ErrInvalidJson))
    ELSE LET validation ==
                 mcqValidateInput(r.body.text,
                                  NumOr(r.body.num_questions, DEFAULT_NUM_QUESTIONS),
                                  StrOr(r.body.difficulty, "medium"))
             v == [r EXCEPT !.validated = TRUE]
         IN  IF ~validation.valid
             THEN Respond(v, ErrorResponse(400, validation.error))
             ELSE IF ~e.apiKey THEN Respond(v, ErrorResponse(500, ErrNoKey))
             ELSE CallUpstream(
                     [v EXCEPT
                        !.sanitizedLen =
                            sanitizeTextInput(r.body.text, MCQ_MAX_TEXT_LENGTH).len,
                        !.numQuestions =
                            NumOr(r.body.num_questions, DEFAULT_NUM_QUESTIONS)],
                     RequestModel("mcqs", r.body, e))

\* the mcq handler calling the upstream once more when the first completion
\* threw, was empty or did not parse
mcqAfterCompletion_Retry(r, reply, e) ==
    IF r.upstreamCalls < 2 /\ (reply.kind # "text" \/ ~FenceParse(reply).ok)
    THEN CallUpstream([r EXCEPT !.reply = reply], r.model)
    ELSE Respond([r EXCEPT !.reply = reply],
                 Catch(mcqParseReply(reply, r.numQuestions, r.sanitizedLen, r.rate),
                       "mcq", e))

\* lines 290-481
mcqAfterCompletion(r, reply, e) ==
    Respond([r EXCEPT !.reply = reply],
            Catch(mcqParseReply(reply, r.numQuestions, r.sanitizedLen, r.rate),
                  "mcq", e))

----------------------------------------------------------------------------
(* flashcards/route.ts POST *)

\* lines 147-162, given the result of checkRateLimit
flashStart(r, rate, t) ==
    LET c == [r EXCEPT !.rate = rate]
    IN  IF ~rate.allowed THEN RateLimited(c, t)
        ELSE [c EXCEPT !.pc = "json", !.jsonParsed = TRUE]

\* lines 163-313
flashAfterJson(r, e) ==
    IF ~r.jsonOk THEN Respond(r, ErrorResponse(400, ErrInvalidJson))
    ELSE LET validation ==
                 flashValidateInput(r.body.text, StrOr(r.body.learning_level, ""))
             v == [r EXCEPT !.validated = TRUE]
         IN  IF ~validation.valid
             THEN Respond(v, ErrorResponse(400, validation.error))
             ELSE IF ~e.apiKey THEN Respond(v, ErrorResponse(500, ErrNoKey))
             ELSE CallUpstream(
                     [v EXCEPT
                        !.sanitizedLen =
                            sanitizeTextInput(r.body.text, FLASH_MAX_TEXT_LENGTH).len],
                     RequestModel("flashcards", r.body, e))

\* lines 315-420
flashAfterCompletion(r, reply, e) ==
    Respond([r EXCEPT !.reply = reply],
            Catch(flashParseReply(reply, r.sanitizedLen, r.rate), "flashcards", e))

----------------------------------------------------------------------------
(* concept-booster/route.ts POST *)

\* lines 170-194, given the result of checkRateLimit
cbStart(r, rate, t) ==
    LET c == [r EXCEPT !.rate = rate]
    IN  IF ~rate.allowed THEN RateLimited(c, t)
        ELSE IF TooLarge(r.headers, CB_MAX_REQUEST_SIZE)
        THEN Respond(c, ErrorResponse(413, ErrTooLarge))
        ELSE [c EXCEPT !.pc = "json", !.jsonParsed = TRUE]

\* lines 195-511
cbAfterJson(r, e) ==
    IF ~r.jsonOk THEN Respond(r, ErrorResponse(400, ErrInvalidJson))
    ELSE LET validation ==
                 cbValidateInput(r.body.text, StrOr(r.body.learning_level, ""))
             v == [r EXCEPT !.validated = TRUE]
         IN  IF ~validation.valid
             THEN Respond(v, ErrorResponse(400, validation.error))
             ELSE IF ~e.apiKey THEN Respond(v, ErrorResponse(500, ErrNoKey))
             ELSE CallUpstream(
                     [v EXCEPT
                        !.sanitizedLen =
                            sanitizeSingleLineInput(r.body.text, MAX_TOPIC_LENGTH).len],
                     RequestModel("concept_booster", r.body, e))

\* lines 513-583
cbAfterCompletion(r, reply, e) ==
    Respond([r EXCEPT !.reply = reply],
            Catch(cbParseReply(reply, r.rate), "concept-booster", e))

----------------------------------------------------------------------------
(* format/route.ts POST: no rate limit, no validateInput *)

\* lines 42-52
formatStart(r, e) ==
    IF ~e.apiKey THEN Respond(r, ErrorResponse(500, ErrNoKey))
    ELSE [r EXCEPT !.pc = "json", !.jsonParsed = TRUE]

\* lines 52-91: a body that is not JSON throws into the catch block
formatAfterJson(r, e) ==
    IF ~r.jsonOk THEN Respond(r, Catch(Throw(ErrBodySyntax), "format", e))
    ELSE LET text == sanitizeTextInput(r.body.text, FORMAT_MAX_LENGTH)
             v == [r EXCEPT !.validated = TRUE]
         IN  IF text.len = 0 THEN Respond(v, ErrorResponse(400, ErrRequired))
             ELSE CallUpstream([v EXCEPT !.sanitizedLen = text.len],
                               RequestModel("formatter", r.body, e))

\* lines 93-128
formatAfterCompletion(r, reply, e) ==
    Respond([r EXCEPT !.reply = reply], Catch(formatReply(reply), "format", e))

----------------------------------------------------------------------------
(* The universe of inputs.  The requests of an endpoint are a baseline     *)
(* request and its variations in one field at a time.                       *)

Endpoints == {"format", "mcq", "flashcards", "concept-booster"}

\* the client's address headers: none; a forwarded-for list "␣a,b"; an empty
\* forwarded-for with a real-ip "c"
ClientHeaders ==
    {[xff |-> Absent, xri |-> Absent],
     [xff |-> Some(<< <<" ", "a">>, <<"b">> >>), xri |-> Some(<<"z">>)],
     [xff |-> Some(<< <<>> >>), xri |-> Some(<<"c">>)]}

ContentLengths(ep) ==
    CASE ep = "mcq" ->
           {Some(<<>>), Some(<<"x">>), Some(<<"1", "5", "0", "0", "0">>),
            Some(<<"1", "5", "0", "0", "1">>), Some(<<"1", "6", "0", "0", "0">>)}
      [] ep = "concept-booster" ->
           {Some(<<"2", "0", "0", "0">>), Some(<<"2", "0", "0", "1">>)}
      [] OTHER -> {Some(<<"1", "6", "0", "0", "0">>)}

TextsOf(ep) ==
    LET max == MaxTextLength(ep)
    IN  {EmptyText, Text("blank", 3), Text("tags", 7)}
        \cup (IF ep = "format" THEN {}
              ELSE {Text("plain", max), Text("plain", max + 1),
                    Text("padded", max + 2), Text("padded", max + 3)})

BaseBody(ep) ==
    CASE ep = "mcq" ->
           [NoBody EXCEPT !.text = Text("plain", 90), !.num_questions = Some(1),
                          !.difficulty = Some("hard")]
      [] ep = "format" -> [NoBody EXCEPT !.text = Text("plain", 90)]
      [] OTHER ->
           [NoBody EXCEPT !.text = Text("plain", 90),
                          !.learning_level = Some("University Level")]

ModelsAsked ==
    {Some(""), Some("auto"), Some("x-ai/grok-4.1"), Some("attacker/any-model")}

BodiesOf(ep) ==
    {BaseBody(ep)}
    \cup {[BaseBody(ep) EXCEPT !.text = t] : t \in TextsOf(ep)}
    \cup {[BaseBody(ep) EXCEPT !.model = m] : m \in ModelsAsked}
    \cup (IF ep = "mcq"
          THEN {[BaseBody(ep) EXCEPT !.num_questions = n] :
                    n \in {Absent, Some(0), Some(0 - 1), Some(MIN_NUM_QUESTIONS),
                           Some(MAX_NUM_QUESTIONS), Some(MAX_NUM_QUESTIONS + 1)}}
               \cup {[BaseBody(ep) EXCEPT !.difficulty = d] :
                        d \in {Absent, Some("extreme")}}
          ELSE IF ep = "format" THEN {}
          ELSE {[BaseBody(ep) EXCEPT !.learning_level = l] :
                   l \in {Absent, Some("Beginner Adult"),
                          Some("Professional / Advanced")}})

BaseInput(ep, h) ==
    [headers |-> [xff |-> h.xff, xri |-> h.xri, cl |-> Absent],
     jsonOk |-> TRUE, body |-> BaseBody(ep)]

\* star: the baseline and every variation of it; otherwise the baseline and,
\* for mcq, the baseline asking for the largest number of questions
Inputs(ep, h, star) ==
    IF star
    THEN {BaseInput(ep, h)}
         \cup {[BaseInput(ep, h) EXCEPT !.jsonOk = FALSE]}
         \cup {[BaseInput(ep, h) EXCEPT !.body = b] : b \in BodiesOf(ep)}
         \cup {[BaseInput(ep, h) EXCEPT !.headers.cl = c] : c \in ContentLengths(ep)}
    ELSE {BaseInput(ep, h)}
         \cup (IF ep = "mcq"
               THEN {[BaseInput(ep, h) EXCEPT
                        !.body.num_questions = Some(MAX_NUM_QUESTIONS)]}
               ELSE {})

(* LLM replies *)

JObject(status, code, msg, list, tokens) ==
    [shape |-> "object", status |-> status, error_code |-> code,
     message |-> msg, list |-> list, tokens |-> tokens]

JArray(list) == [NoJson EXCEPT !.shape = "array", !.list = Some(list)]

TextReply(fence, prose, j) ==
    [kind |-> "text", fence |-> fence, prose |-> prose, json |-> j]

Options(n) == [i \in 1..n |-> <<"o">>]

McqItems ==
    [id : {0}, question : {<<>>, <<"q">>}, options : {Options(3), Options(4)},
     correct : {"", "A", "b", "E"}]

GoodMcq == [id |-> 0, question |-> <<"q">>, options |-> Options(4), correct |-> "b"]

Cards ==
    [id : {0}, type : {Absent, Some("trick"), Some("bogus")},
     front : {<<>>, <<" ">>, <<"f">>}, back : {<<>>, <<"b", " ">>}]

GoodCard == [id |-> 0, type |-> Absent, front |-> <<"f">>, back |-> <<"b", " ">>]

RECURSIVE SeqsUpTo(_, _)
SeqsUpTo(S, n) ==
    IF n = 0 THEN {<<>>}
    ELSE LET shorter == SeqsUpTo(S, n - 1)
         IN  shorter \cup {Append(q, x) : q \in {p \in shorter : Len(p) = n - 1},
                                          x \in S}

ErrorJsons ==
    {JObject(Some("ERROR"), c, m, Absent, Absent) :
        c \in {Absent, Some(InsufficientContext), Some("CONTENT_POLICY")},
        m \in {Absent, Some(""), Some("no facts in the text")}}

\* the JSON values an endpoint's prompt can bring back
JsonsOf(ep, rich) ==
    LET items == IF ep = "mcq" THEN McqItems ELSE Cards
        good == IF ep = "mcq" THEN GoodMcq ELSE GoodCard
        lists == IF ep = "concept-booster" THEN {<<>>}
                 ELSE IF rich THEN SeqsUpTo(items, MaxItems)
                 ELSE {<<>>, <<good>>}
    IN  {NoJson}
        \cup (IF rich THEN ErrorJsons
              ELSE {JObject(Some("ERROR"), Some(InsufficientContext),
                            Some("no facts in the text"), Absent, Absent),
                    JObject(Some("ERROR"), Some("CONTENT_POLICY"), Absent,
                            Absent, Absent)})
        \cup {JObject(Some("OK"), Absent, Absent, Some(l), Absent) : l \in lists}
        \cup {JObject(Some("OK"), Absent, Absent, Some(<<good>>), Some(42)),
              JObject(Some("OK"), Absent, Absent, Absent, Absent),
              JObject(Absent, Absent, Absent, Some(<<good>>), Absent)}
        \cup (IF ep = "mcq" THEN {JArray(l) : l \in lists} ELSE {})

\* messages of the errors create() throws: a failed fetch, a non-2xx answer
UpstreamErrors ==
    {"fetch failed", "OpenRouter API error: 401 {\"error\":\"invalid key\"}"}

Replies(ep, rich) ==
    {[NoReply EXCEPT !.kind = "throw", !.err = m] : m \in UpstreamErrors}
    \cup {NoReply}
    \cup (IF ep = "format" THEN {TextReply("none", FALSE, NoJson)}
          ELSE {TextReply("none", FALSE, j) : j \in JsonsOf(ep, rich)}
               \cup (IF rich
                     THEN {TextReply(f, FALSE, j) :
                              f \in {"json", "bare"}, j \in JsonsOf(ep, rich)}
                          \cup {TextReply("none", TRUE, j) : j \in JsonsOf(ep, rich)}
                     ELSE {TextReply("json", FALSE,
                                     JObject(Some("OK"), Absent, Absent,
                                             Some(<<>>), Absent)),
                           TextReply("none", TRUE,
                                     JObject(Some("OK"), Absent, Absent,
                                             Some(<<>>), Absent))}))

\* the completion throws, is empty, or is one well-formed list
FewReplies(ep) ==
    {[NoReply EXCEPT !.kind = "throw", !.err = "fetch failed"],
     NoReply,
     TextReply("none", FALSE,
               JObject(Some("OK"), Absent, Absent,
                       Some(<<IF ep = "mcq" THEN GoodMcq ELSE GoodCard>>), Absent))}

BaseEnv ==
    [apiKey |-> TRUE, useRedis |-> FALSE, development |-> FALSE,
     taskModel |-> Absent, globalModel |-> Absent]

Envs ==
    {BaseEnv,
     [BaseEnv EXCEPT !.apiKey = FALSE],
     [BaseEnv EXCEPT !.useRedis = TRUE],
     [BaseEnv EXCEPT !.development = TRUE],
     [BaseEnv EXCEPT !.globalModel = Some("openai/gpt-4o-mini")],
     [BaseEnv EXCEPT !.globalModel = Some("openai/gpt-4o-mini"),
                     !.taskModel = Some("x-ai/grok-4.1")]}

BaseClient == [xff |-> Absent, xri |-> Absent]

\* one endpoint, one client and one environment per run; the client and the
\* environment vary one at a time
Configs ==
    {[ep |-> e, hdr |-> h, env |-> BaseEnv] : e \in Endpoints, h \in ClientHeaders}
    \cup {[ep |-> e, hdr |-> BaseClient, env |-> v] : e \in Endpoints, v \in Envs}

TickSteps == {RATE_LIMIT_WINDOW_MS \div 120, RATE_LIMIT_WINDOW_MS}

\* the clock advances made so far: a long step is a window, a short one 500 ms
TicksUsed(t) ==
    (t \div RATE_LIMIT_WINDOW_MS)
    + ((t % RATE_LIMIT_WINDOW_MS) \div (RATE_LIMIT_WINDOW_MS \div 120))

----------------------------------------------------------------------------
(* The window of arrivals of a client at an endpoint (history): it starts  *)
(* with the client's first request and with the first request that comes   *)
(* more than 60 seconds after the start of the window before.               *)

ArrivalKey(ep, headers) == <<ep, getIp(headers)>>

Arrived(a, k, t) ==
    IF k \in DOMAIN a /\ t <= a[k].start + RATE_LIMIT_WINDOW_MS
    THEN Put(a, k, [a[k] EXCEPT !.n = @ + 1])
    ELSE Put(a, k, [start |-> t, n |-> 1, rejected |-> 0])

\* where the run keeps the tally: one more request of the window has been
\* answered 400 or 413 before any upstream call
Tally(a, r) ==
    IF /\ cfg.tally
       /\ r.pc = "done"
       /\ r.resp.status \in {400, 413}
       /\ r.upstreamCalls = 0
    THEN [a EXCEPT ![ArrivalKey(r.ep, r.headers)].rejected = @ + 1]
    ELSE a

----------------------------------------------------------------------------
(* Actions *)

\* no library function is under call
NoSan == [pc |-> "idle", input |-> <<>>, options |-> <<>>, once |-> <<>>,
          twice |-> <<>>]

NoLog == [pc |-> "idle", error |-> <<>>, context |-> <<>>, line |-> <<>>]

\* the page as first rendered: useState("idle"), useState(""), useState(null)
NoUi == [mode |-> "idle", currentStep |-> "", content |-> <<>>, error |-> FALSE,
         conversationHistory |-> <<>>,
         sent |-> "", by |-> "", from |-> "", answers |-> 0, history |-> <<>>]

\* apiManager as constructed: activeRequests = new Map(), debounceTimers =
\* new Map(); no timer has been set and the clock is at 0
NoApi == [activeRequests |-> EmptyStore, calls |-> <<>>,
          debounceTimers |-> EmptyStore, timers |-> <<>>, clock |-> 0]

LibIdle == san = NoSan /\ log = NoLog /\ ui = NoUi /\ api = NoApi

StoreInit ==
    /\ now = 0
    /\ flashStore = EmptyStore
    /\ cbStore = EmptyStore
    /\ arrivals = EmptyStore
    /\ memStore = EmptyStore
    /\ rl = [impl |-> "", limit |-> 0, win |-> EmptyStore, last |-> EmptyStore,
             ref |-> EmptyStore, plain |-> EmptyStore]
    /\ LibIdle

Init ==
    /\ StoreInit
    /\ \E c \in Configs :
          /\ env = c.env
          /\ cfg = [ep |-> c.ep, hdr |-> c.hdr, star |-> TRUE, rich |-> FALSE,
                    few |-> FALSE, tally |-> FALSE,
                    maxArrivals |-> IF c.env.useRedis \/ c.env = BaseEnv
                                    THEN MaxArrivals ELSE MaxEnvArrivals,
                    maxTicks |-> MaxTicks]
    /\ req = [s \in {1} |-> Idle]

\* the endpoints the run sends requests to
EndpointsServed ==
    IF cfg.ep = "study" THEN {"flashcards", "concept-booster"} ELSE {cfg.ep}

\* both routes keeping their counts in the store of the flashcards route
RouteCheck_OneStore(r, t, rnd) ==
    LET c == checkRateLimit(flashStore, getIp(r.headers), t, rnd)
    IN  [flash |-> c.store, cb |-> cbStore, result |-> c.result]

\* the concept-booster route looking at the content-length first, and
\* counting only the requests that pass
RouteCheck_SizeFirst(r, t, rnd) ==
    IF r.ep = "flashcards"
    THEN LET c == checkRateLimit(flashStore, getIp(r.headers), t, rnd)
         IN  [flash |-> c.store, cb |-> cbStore, result |-> c.result]
    ELSE IF TooLarge(r.headers, CB_MAX_REQUEST_SIZE)
    THEN [flash |-> flashStore, cb |-> cbStore,
          result |-> [allowed |-> TRUE, remaining |-> 0, resetAt |-> 0]]
    ELSE LET c == cbCheckRateLimit(cbStore, getIp(r.headers), t, rnd)
         IN  [flash |-> flashStore, cb |-> c.store, result |-> c.result]

\* checkRateLimit(getRateLimitKey(req)) as the flashcards and the
\* concept-booster route call it, each over the rateLimitStore of its module
RouteCheck(r, t, rnd) ==
    IF r.ep = "flashcards"
    THEN LET c == checkRateLimit(flashStore, getIp(r.headers), t, rnd)
         IN  [flash |-> c.store, cb |-> cbStore, result |-> c.result]
    ELSE LET c == cbCheckRateLimit(cbStore, getIp(r.headers), t, rnd)
         IN  [flash |-> flashStore, cb |-> c.store, result |-> c.result]

\* a request arrives and its handler runs up to its first await
Start(s) ==
    /\ req[s].pc = "idle"
    /\ \E ep \in EndpointsServed :
       \E inp \in Inputs(ep, cfg.hdr, cfg.star), rnd \in BOOLEAN :
          LET k == ArrivalKey(ep, inp.headers)
              a == Arrived(arrivals, k, now)
              r == [Idle EXCEPT !.ep = ep, !.headers = inp.headers,
                                !.jsonOk = inp.jsonOk, !.body = inp.body,
                                !.nth = a[k].n]
          IN  /\ a[k].n <= cfg.maxArrivals
              /\ CASE ep = "mcq" ->
                        /\ req' = [req EXCEPT ![s] = mcqStart(r, now, rnd, env)]
                        /\ UNCHANGED <<flashStore, cbStore>>
                   [] ep \in {"flashcards", "concept-booster"} ->
                        LET c == RouteCheck(r, now, rnd)
                        IN  /\ flashStore' = c.flash
                            /\ cbStore' = c.cb
                            /\ req' = [req EXCEPT ![s] =
                                          IF ep = "flashcards"
                                          THEN flashStart(r, c.result, now)
                                          ELSE cbStart(r, c.result, now)]
                   [] OTHER ->
                        /\ req' = [req EXCEPT ![s] = formatStart(r, env)]
                        /\ UNCHANGED <<flashStore, cbStore>>
              /\ arrivals' = Tally(a, req'[s])
    /\ UNCHANGED <<now, env, cfg, memStore, rl, libVars>>

\* mcq: limiter.check has resolved
AfterCheck(s) ==
    /\ req[s].pc = "check"
    /\ req' = [req EXCEPT ![s] = mcqAfterCheck(req[s], now)]
    /\ UNCHANGED <<now, env, cfg, flashStore, cbStore, arrivals, memStore, rl, libVars>>

\* req.json() has resolved or thrown
AfterJson(s) ==
    /\ req[s].pc = "json"
    /\ req' = [req EXCEPT ![s] =
                  CASE req[s].ep = "mcq" -> mcqAfterJson(req[s], env)
                    [] req[s].ep = "flashcards" -> flashAfterJson(req[s], env)
                    [] req[s].ep = "concept-booster" -> cbAfterJson(req[s], env)
                    [] OTHER -> formatAfterJson(req[s], env)]
    /\ arrivals' = Tally(arrivals, req'[s])
    /\ UNCHANGED <<now, env, cfg, flashStore, cbStore, memStore, rl, libVars>>

\* the completion has resolved or thrown
AfterCompletion(s) ==
    /\ req[s].pc = "llm"
    /\ \E reply \in IF cfg.few THEN FewReplies(req[s].ep)
                     ELSE Replies(req[s].ep, cfg.rich) :
          req' = [req EXCEPT ![s] =
                     CASE req[s].ep = "mcq" -> mcqAfterCompletion(req[s], reply, env)
                       [] req[s].ep = "flashcards" -> flashAfterCompletion(req[s], reply, env)
                       [] req[s].ep = "concept-booster" -> cbAfterCompletion(req[s], reply, env)
                       [] OTHER -> formatAfterCompletion(req[s], reply, env)]
    /\ UNCHANGED <<now, env, cfg, flashStore, cbStore, arrivals, memStore, rl, libVars>>

\* the response is sent and the handler's variables are gone
Release(s) ==
    /\ req[s].pc = "done"
    /\ req' = [req EXCEPT ![s] = Idle]
    /\ UNCHANGED <<now, env, cfg, flashStore, cbStore, arrivals, memStore, rl, libVars>>

Tick ==
    /\ TicksUsed(now) < cfg.maxTicks
    /\ \E d \in TickSteps : now' = now + d
    /\ UNCHANGED <<env, cfg, req, flashStore, cbStore, arrivals, memStore, rl, libVars>>

Next ==
    \/ \E s \in DOMAIN req : Start(s)
    \/ \E s \in DOMAIN req : AfterCheck(s)
    \/ \E s \in DOMAIN req : AfterJson(s)
    \/ \E s \in DOMAIN req : AfterCompletion(s)
    \/ \E s \in DOMAIN req : Release(s)
    \/ Tick

Spec == Init /\ [][Next]_vars

----------------------------------------------------------------------------
(* The parsers on the full universe of replies: one request per run, the   *)
(* baseline client and environment, no clock.                               *)

InitParse ==
    /\ StoreInit
    /\ env = BaseEnv
    /\ \E e \in Endpoints \ {"format"} :
          cfg = [ep |-> e, hdr |-> BaseClient, star |-> FALSE, rich |-> TRUE,
                 few |-> FALSE, tally |-> FALSE,
                 maxArrivals |-> 1, maxTicks |-> 0]
    /\ req = [s \in {1} |-> Idle]

NextParse ==
    \/ \E s \in DOMAIN req : Start(s)
    \/ \E s \in DOMAIN req : AfterCheck(s)
    \/ \E s \in DOMAIN req : AfterJson(s)
    \/ \E s \in DOMAIN req : AfterCompletion(s)
    \/ \E s \in DOMAIN req : Release(s)

SpecParse == InitParse /\ [][NextParse]_vars

----------------------------------------------------------------------------
(* Several requests of one client at /api/flashcards handled at the same   *)
(* time: a handler runs from one await to the next without interruption,    *)
(* and the handlers of the other requests run in between.                   *)

InitConc ==
    /\ StoreInit
    /\ env = BaseEnv
    /\ cfg = [ep |-> "flashcards", hdr |-> BaseClient, star |-> FALSE,
              rich |-> FALSE, few |-> TRUE, tally |-> FALSE, maxArrivals |-> MaxArrivals,
              maxTicks |-> 1]
    /\ req = [s \in 1..MaxSlots |-> Idle]

NextConc ==
    \/ \E s \in DOMAIN req : Start(s)
    \/ \E s \in DOMAIN req : AfterJson(s)
    \/ \E s \in DOMAIN req : AfterCompletion(s)
    \/ \E s \in DOMAIN req : Release(s)
    \/ Tick

SpecConc == InitConc /\ [][NextConc]_vars

----------------------------------------------------------------------------
(* The clients without address headers at /api/flashcards or at             *)
(* /api/concept-booster, sending valid and invalid requests one after the   *)
(* other; the history keeps the tally of the rejected ones.                 *)

InitRejected ==
    /\ StoreInit
    /\ env = BaseEnv
    /\ \E e \in {"flashcards", "concept-booster"} :
          cfg = [ep |-> e, hdr |-> BaseClient, star |-> TRUE, rich |-> FALSE,
                 few |-> TRUE, tally |-> TRUE, maxArrivals |-> MaxArrivals,
                 maxTicks |-> 1]
    /\ req = [s \in {1} |-> Idle]

NextRejected ==
    \/ \E s \in DOMAIN req : Start(s)
    \/ \E s \in DOMAIN req : AfterJson(s)
    \/ \E s \in DOMAIN req : AfterCompletion(s)
    \/ \E s \in DOMAIN req : Release(s)
    \/ Tick

SpecRejected == InitRejected /\ [][NextRejected]_vars

----------------------------------------------------------------------------
(* The clients without address headers sending valid requests to            *)
(* /api/flashcards and to /api/concept-booster in any order.                *)

InitStudy ==
    /\ StoreInit
    /\ env = BaseEnv
    /\ cfg = [ep |-> "study", hdr |-> BaseClient, star |-> FALSE, rich |-> FALSE,
              few |-> TRUE, tally |-> FALSE, maxArrivals |-> MaxArrivals,
              maxTicks |-> 1]
    /\ req = [s \in {1} |-> Idle]

NextStudy ==
    \/ \E s \in DOMAIN req : Start(s)
    \/ \E s \in DOMAIN req : AfterJson(s)
    \/ \E s \in DOMAIN req : AfterCompletion(s)
    \/ \E s \in DOMAIN req : Release(s)
    \/ Tick

SpecStudy == InitStudy /\ [][NextStudy]_vars

----------------------------------------------------------------------------
(* A rate limiter called directly, as its callers would: one store, two    *)
(* clients, a limit L fixed for the run.  impl names the code: the         *)
(* MemoryRateLimiter instance (any L) or one of the two checkRateLimit      *)
(* functions (L = 10).  rl is the history of the calls:                     *)
(*   win[c]   the window of client c: its start, the ordinal n of c's last  *)
(*            call in it, and which window of c it is (wins)                *)
(*   last[c]  what c's last call returned                                   *)
(*   plain    the store of a second instance given the same calls at the    *)
(*            same times, none of which runs the cleanup                    *)
(*   ref[c]   what c's last call of the second instance returned            *)

\* the callers: one that sends a forwarded-for list, and the pool of those
\* that send no address header
Clients == {<<"a">>, UnknownIp}

\* the address headers a caller's requests carry
HeadersOf(c) ==
    IF c = UnknownIp THEN BaseClient
    ELSE [xff |-> Some(<< <<" ">> \o c, <<"b">> >>), xri |-> Absent]

NoWindow == [start |-> 0, n |-> 0, wins |-> 0]

DirectArrived(w, t) ==
    IF w.wins > 0 /\ t <= w.start + RATE_LIMIT_WINDOW_MS
    THEN [w EXCEPT !.n = @ + 1]
    ELSE [start |-> t, n |-> 1, wins |-> w.wins + 1]

InitRL ==
    /\ now = 0
    /\ flashStore = EmptyStore
    /\ cbStore = EmptyStore
    /\ arrivals = EmptyStore
    /\ memStore = EmptyStore
    /\ env = BaseEnv
    /\ cfg = [ep |-> "", hdr |-> BaseClient, star |-> FALSE, rich |-> FALSE,
              few |-> FALSE, tally |-> FALSE,
              maxArrivals |-> 0, maxTicks |-> MaxTicks + 1]
    /\ req = [s \in {1} |-> Idle]
    /\ LibIdle
    /\ \E i \in {"memory", "flashcards", "concept-booster"} :
       \E l \in 1..MaxLimit :
          rl = [impl |-> i,
                limit |-> IF i = "memory" THEN l ELSE RATE_LIMIT_MAX_REQUESTS,
                win |-> [c \in Clients |-> NoWindow],
                last |-> [c \in Clients |-> NoRate],
                ref |-> [c \in Clients |-> NoRate],
                plain |-> EmptyStore]

\* the store the implementation under call keeps
DirectStore ==
    CASE rl.impl = "memory" -> memStore
      [] rl.impl = "flashcards" -> flashStore
      [] OTHER -> cbStore

\* one check of the implementation under call
DirectOut(store, key, t, rnd) ==
    CASE rl.impl = "memory" ->
           MemoryRateLimiterCheck(store, key, t, rnd, rl.limit, RATE_LIMIT_WINDOW_MS)
      [] rl.impl = "flashcards" -> checkRateLimit(store, key, t, rnd)
      [] OTHER -> cbCheckRateLimit(store, key, t, rnd)

DirectCheck(c) ==
    \E rnd \in BOOLEAN :
       LET w == DirectArrived(rl.win[c], now)
           out == DirectOut(DirectStore, getIp(HeadersOf(c)), now, rnd)
           ref == DirectOut(rl.plain, getIp(HeadersOf(c)), now, FALSE)
       IN  /\ w.n <= rl.limit + MaxExtraCalls
           /\ rl' = [rl EXCEPT !.win[c] = w, !.last[c] = out.result,
                               !.ref[c] = ref.result, !.plain = ref.store]
           /\ memStore' = IF rl.impl = "memory" THEN out.store ELSE memStore
           /\ flashStore' = IF rl.impl = "flashcards" THEN out.store ELSE flashStore
           /\ cbStore' = IF rl.impl = "concept-booster" THEN out.store ELSE cbStore
           /\ UNCHANGED <<now, env, cfg, req, arrivals, libVars>>

NextRL ==
    \/ \E c \in Clients : DirectCheck(c)
    \/ Tick

SpecRL == InitRL /\ [][NextRL]_vars

----------------------------------------------------------------------------
(* One RedisRateLimiter and one MemoryRateLimiter instance given the same   *)
(* calls at the same times: rl.last is what the first returned, rl.ref what *)
(* the second returned, memStore the store of the second.                   *)

InitRedis ==
    /\ now = 0
    /\ flashStore = EmptyStore
    /\ cbStore = EmptyStore
    /\ arrivals = EmptyStore
    /\ memStore = EmptyStore
    /\ env = [BaseEnv EXCEPT !.useRedis = TRUE]
    /\ cfg = [ep |-> "", hdr |-> BaseClient, star |-> FALSE, rich |-> FALSE,
              few |-> FALSE, tally |-> FALSE,
              maxArrivals |-> 0, maxTicks |-> MaxTicks + 1]
    /\ req = [s \in {1} |-> Idle]
    /\ LibIdle
    /\ \E l \in 1..MaxLimit :
          rl = [impl |-> "redis", limit |-> l,
                win |-> [c \in Clients |-> NoWindow],
                last |-> [c \in Clients |-> NoRate],
                ref |-> [c \in Clients |-> NoRate],
                plain |-> EmptyStore]

RedisCheck(c) ==
    \E rnd \in BOOLEAN, rndRef \in BOOLEAN :
       LET w == DirectArrived(rl.win[c], now)
           out == RedisRateLimiterCheck(c, now, rnd, rl.limit,
                                        RATE_LIMIT_WINDOW_MS)
           ref == MemoryRateLimiterCheck(memStore, c, now, rndRef, rl.limit,
                                         RATE_LIMIT_WINDOW_MS)
       IN  /\ w.n <= rl.limit + MaxExtraCalls
           /\ rl' = [rl EXCEPT !.win[c] = w, !.last[c] = out.result,
                               !.ref[c] = ref.result]
           /\ memStore' = ref.store
           /\ UNCHANGED <<now, env, cfg, req, flashStore, cbStore, arrivals,
                          libVars>>

NextRedis ==
    \/ \E c \in Clients : RedisCheck(c)
    \/ Tick

SpecRedis == InitRedis /\ [][NextRedis]_vars

----------------------------------------------------------------------------
(* sanitizeInput called on a string, and called again on its result.        *)

SanChars == {"a", " ", "<", ">", "&", ";", "[", "'", "NUL", "LF"}

SanInputs == SeqsUpTo(SanChars, MaxSanLen)

SanOptions ==
    [allowHtml : BOOLEAN, maxLength : {0, MaxSanLen, 4 * MaxSanLen},
     removeNewlines : BOOLEAN]

\* no request has arrived and every store is empty
ServerIdle ==
    /\ now = 0
    /\ flashStore = EmptyStore
    /\ cbStore = EmptyStore
    /\ arrivals = EmptyStore
    /\ memStore = EmptyStore
    /\ rl = [impl |-> "", limit |-> 0, win |-> EmptyStore, last |-> EmptyStore,
             ref |-> EmptyStore, plain |-> EmptyStore]
    /\ cfg = [ep |-> "", hdr |-> BaseClient, star |-> FALSE, rich |-> FALSE,
              few |-> FALSE, tally |-> FALSE,
              maxArrivals |-> 0, maxTicks |-> 0]
    /\ req = [s \in {1} |-> Idle]

InitSan ==
    /\ ServerIdle
    /\ env = BaseEnv
    /\ log = NoLog
    /\ ui = NoUi
    /\ api = NoApi
    /\ \E i \in SanInputs, o \in SanOptions :
          san = [NoSan EXCEPT !.pc = "new", !.input = i, !.options = <<o>>]

Sanitize ==
    /\ san.pc = "new"
    /\ san' = [san EXCEPT !.pc = "once",
                          !.once = sanitizeInput(san.input, san.options[1])]
    /\ UNCHANGED <<serverVars, log, ui, api>>

SanitizeAgain ==
    /\ san.pc = "once"
    /\ san' = [san EXCEPT !.pc = "twice",
                          !.twice = sanitizeInput(san.once, san.options[1])]
    /\ UNCHANGED <<serverVars, log, ui, api>>

NextSan == Sanitize \/ SanitizeAgain

SpecSan == InitSan /\ [][NextSan]_vars

----------------------------------------------------------------------------
(* logError called with an error and a context object.                      *)

LogKeys == {"route", "apiKey", "TOKEN", "Authorization"}

LogLeaves == {StringValue("hunter2"), NumberValue("42")}

\* values whose objects nest at most depth deep
RECURSIVE LogValues(_)
LogValues(depth) ==
    IF depth = 0 THEN LogLeaves
    ELSE LogLeaves \cup
         {ObjectValue(<< <<KeyOf(k), v>> >>) :
              k \in LogKeys, v \in LogValues(depth - 1)}

LogContexts ==
    {<<>>} \cup
    {<< <<KeyOf(k), v>> >> : k \in LogKeys, v \in LogValues(MaxLogDepth)}

LogErrors ==
    {[isError |-> TRUE, message |-> ErrNoLlmResponse],
     [isError |-> FALSE, message |-> ""]}

InitLog ==
    /\ ServerIdle
    /\ san = NoSan
    /\ ui = NoUi
    /\ api = NoApi
    /\ env \in {BaseEnv, [BaseEnv EXCEPT !.development = TRUE]}
    /\ \E err \in LogErrors, c \in LogContexts :
          log = [NoLog EXCEPT !.pc = "called", !.error = err, !.context = c]

LogError ==
    /\ log.pc = "called"
    /\ log' = [log EXCEPT !.pc = "written",
                          !.line = logError(log.error, log.context, env)]
    /\ UNCHANGED <<serverVars, san, ui, api>>

NextLog == LogError

SpecLog == InitLog /\ [][NextLog]_vars

----------------------------------------------------------------------------
(* concept-booster/page.tsx and ConceptBoosterDisplay.tsx: the page, its    *)
(* buttons and the requests they send.  The content of a response is        *)
(* [shape, n, answer, ideal]: the step whose fields it holds, the number of *)
(* its questions, whether it holds an answer to a doubt, and whether it     *)
(* holds an ideal_response.  ui.sent, ui.by, ui.from, ui.answers and        *)
(* ui.history record the last request: its step, the handler that sent it,  *)
(* the step on screen then, the answers handed over and the                 *)
(* conversation_history of its body (empty when the body has none).         *)

Steps ==
    <<"diagnostic", "explanation", "ask_doubts", "check_understanding",
      "practice", "feedback">>

\* setMode("loading"); setError(null); fetch("/api/concept-booster", {step})
Fetch(u, handler, step, answers) ==
    [u EXCEPT !.mode = "loading", !.error = FALSE, !.sent = step,
              !.by = handler, !.from = u.currentStep, !.answers = answers,
              !.history = <<>>]

\* ConceptBoosterDisplay renders the screen of step: mode is "active", the
\* content is there and holds the fields of that step
Shown(step) ==
    /\ ui.mode = "active"
    /\ Has(ui.content)
    /\ ui.currentStep = step
    /\ Get(ui.content).shape = step

\* the form is submitted
handleStart ==
    /\ ui.mode = "idle"
    /\ ui' = [Fetch(ui, "handleStart", "diagnostic", 0) EXCEPT
                 !.currentStep = "diagnostic", !.content = Absent,
                 !.conversationHistory = <<>>]
    /\ UNCHANGED <<serverVars, san, log, api>>

\* "Skip" hands over no answer, "Continue to Explanation" one per question
handleDiagnosticSubmit ==
    /\ Shown("diagnostic")
    /\ \E answers \in {0, Get(ui.content).n} :
          ui' = Fetch(ui, "handleDiagnosticSubmit", "explanation", answers)
    /\ UNCHANGED <<serverVars, san, log, api>>

\* "Ask Doubts" on the explanation; "Ask Another Question" and "Ask
\* Question" on the doubts screen
handleDoubtSubmit ==
    /\ Shown("explanation") \/ Shown("ask_doubts")
    /\ ui' = Fetch(ui, "handleDoubtSubmit", "ask_doubts", 0)
    /\ UNCHANGED <<serverVars, san, log, api>>

\* step: answers.length > 0 ? "check_understanding" : "practice"
UnderstandingStep(answers) ==
    IF answers > 0 THEN "check_understanding" ELSE "practice"

\* "Check Understanding" on the explanation and "Continue to Understanding
\* Check" on the doubts screen call onUnderstandingSubmit([]); "Continue to
\* Practice" on the understanding check hands over one answer per question
handleUnderstandingSubmit ==
    /\ \E answers \in 0..MaxQuestions :
          /\ \/ (Shown("explanation") \/ Shown("ask_doubts")) /\ answers = 0
             \/ Shown("check_understanding") /\ answers = Get(ui.content).n
          /\ ui' = Fetch(ui, "handleUnderstandingSubmit",
                         UnderstandingStep(answers), answers)
    /\ UNCHANGED <<serverVars, san, log, api>>

\* "Get Feedback": the body carries conversation_history: conversationHistory
handlePracticeSubmit ==
    /\ Shown("practice")
    /\ ui' = [Fetch(ui, "handlePracticeSubmit", "feedback", 0) EXCEPT
                 !.history = ui.conversationHistory]
    /\ UNCHANGED <<serverVars, san, log, api>>

\* "Start New Topic"
handleReset ==
    /\ ui.mode = "active"
    /\ Has(ui.content)
    /\ ui' = NoUi
    /\ UNCHANGED <<serverVars, san, log, api>>

\* the fetch settles: res.ok with the step and content the server passed on
\* from the completion, or the catch block
FetchSettled ==
    /\ ui.mode = "loading"
    /\ \/ \E i \in 1..Len(Steps), n \in 0..MaxQuestions, answer \in BOOLEAN,
                ideal \in BOOLEAN :
             /\ n > 0 => Steps[i] \in {"diagnostic", "check_understanding"}
             /\ answer => Steps[i] = "ask_doubts"
             /\ ideal => Steps[i] = "practice"
             /\ ui' = [ui EXCEPT !.mode = "active", !.currentStep = Steps[i],
                                 !.content = Some([shape |-> Steps[i], n |-> n,
                                                   answer |-> answer,
                                                   ideal |-> ideal])]
       \/ ui' = [ui EXCEPT !.error = TRUE,
                           !.mode = IF ui.by = "handleStart" THEN "idle"
                                    ELSE "active"]
    /\ UNCHANGED <<serverVars, san, log, api>>

\* concept-booster/route.ts 491: the "Ideal Response:" of the feedback prompt,
\* conversation_history.find(h => h.role === "assistant" &&
\* h.content.includes("ideal_response"))?.content || ""
idealResponse(conversation_history) ==
    LET found == {i \in 1..Len(conversation_history) :
                     /\ conversation_history[i].role = "assistant"
                     /\ conversation_history[i].content.ideal}
    IN  IF found = {} THEN Absent
        ELSE Some(conversation_history[CHOOSE i \in found :
                                          \A k \in found : i <= k].content)

InitUi ==
    /\ ServerIdle
    /\ env = BaseEnv
    /\ san = NoSan
    /\ log = NoLog
    /\ ui = NoUi
    /\ api = NoApi

NextUi ==
    \/ handleStart
    \/ handleDiagnosticSubmit
    \/ handleDoubtSubmit
    \/ handleUnderstandingSubmit
    \/ handlePracticeSubmit
    \/ handleReset
    \/ FetchSettled

SpecUi == InitUi /\ [][NextUi]_vars

----------------------------------------------------------------------------
(* api-manager.ts: makeRequest calls on the singleton apiManager, with      *)
(* cancelPrevious at its default.  api.calls[c] is the c-th call: its       *)
(* requestId, whether its controller was aborted, and "inflight" while      *)
(* requestFn has not settled, then how it settled.                          *)

RequestIds == {"format-request", "mcq-request"}

\* lines 22-36: up to "await requestFn(controller.signal)"
makeRequest(a, requestId) ==
    LET c == Len(a.calls) + 1
        had == requestId \in DOMAIN a.activeRequests
        aborted == IF had
                   THEN [a.calls EXCEPT ![a.activeRequests[requestId]].aborted = TRUE]
                   ELSE a.calls
    IN  [a EXCEPT !.activeRequests = Put(a.activeRequests, requestId, c),
                  !.calls = Append(aborted, [id |-> requestId, aborted |-> FALSE,
                                             state |-> "inflight"])]

\* Map.prototype.delete
Delete(store, key) == [k \in (DOMAIN store) \ {key} |-> store[k]]

\* lines 36-49: requestFn of call c has settled with outcome
makeRequestSettled(a, c, outcome) ==
    [a EXCEPT !.activeRequests = Delete(a.activeRequests, a.calls[c].id),
              !.calls = [a.calls EXCEPT ![c].state = outcome]]

MakeRequest ==
    /\ Len(api.calls) < MaxCalls
    /\ \E requestId \in RequestIds : api' = makeRequest(api, requestId)
    /\ UNCHANGED <<serverVars, san, log, ui>>

\* the fetch resolves, fails, or rejects with an AbortError after abort()
Settle ==
    /\ \E c \in 1..Len(api.calls) :
          /\ api.calls[c].state = "inflight"
          /\ \E outcome \in {"resolved", "rejected", "AbortError"} :
                /\ outcome = "AbortError" => api.calls[c].aborted
                /\ api' = makeRequestSettled(api, c, outcome)
    /\ UNCHANGED <<serverVars, san, log, ui>>

InitApi ==
    /\ ServerIdle
    /\ env = BaseEnv
    /\ san = NoSan
    /\ log = NoLog
    /\ ui = NoUi
    /\ api = NoApi

NextApi == MakeRequest \/ Settle

SpecApi == InitApi /\ [][NextApi]_vars

----------------------------------------------------------------------------
(* APICallManager.debounce: the wrapper it returns for one key is called    *)
(* again and again.  api.timers is the list of the timers set, one per      *)
(* call: the time of the call and the state of its callback, "pending"      *)
(* until the timer fires or is cleared, "running" while fn is awaited,      *)
(* "settled" after the finally block.  api.clock is the time.               *)

DebounceKey == "search"

\* the clock advances by half the delay
ClockStep == DEBOUNCE_DELAY \div 2

\* clearTimeout: a timer that has fired already is not affected
clearTimeout(timers, i) ==
    IF timers[i].state = "pending" THEN [timers EXCEPT ![i].state = "cleared"]
    ELSE timers

\* lines 66-81: a call of the wrapper
debounce(a, key) ==
    LET cleared == IF key \in DOMAIN a.debounceTimers
                   THEN clearTimeout(a.timers, a.debounceTimers[key])
                   ELSE a.timers
        timer == Len(a.timers) + 1
    IN  [a EXCEPT !.timers = Append(cleared, [at |-> a.clock, state |-> "pending"]),
                  !.debounceTimers = Put(a.debounceTimers, key, timer)]

\* lines 72-74: the timer fires and the callback runs up to "await fn(...args)"
timerFired(a, i) == [a EXCEPT !.timers[i].state = "running"]

\* lines 75-80: fn has settled; resolve or reject, then the finally block
fnSettled(a, i, key) ==
    [a EXCEPT !.timers[i].state = "settled",
              !.debounceTimers = Delete(a.debounceTimers, key)]

Debounced ==
    /\ Len(api.timers) < MaxDebounced
    /\ api' = debounce(api, DebounceKey)
    /\ UNCHANGED <<serverVars, san, log, ui>>

TimerFires ==
    /\ \E i \in 1..Len(api.timers) :
          /\ api.timers[i].state = "pending"
          /\ api.clock >= api.timers[i].at + DEBOUNCE_DELAY
          /\ api' = timerFired(api, i)
    /\ UNCHANGED <<serverVars, san, log, ui>>

FnSettles ==
    /\ \E i \in 1..Len(api.timers) :
          /\ api.timers[i].state = "running"
          /\ api' = fnSettled(api, i, DebounceKey)
    /\ UNCHANGED <<serverVars, san, log, ui>>

\* time passes; a timer that is due fires before any later event
ClockTick ==
    /\ api.clock < MaxClockTicks * ClockStep
    /\ \A i \in 1..Len(api.timers) :
          api.timers[i].state = "pending" =>
             api.clock < api.timers[i].at + DEBOUNCE_DELAY
    /\ api' = [api EXCEPT !.clock = @ + ClockStep]
    /\ UNCHANGED <<serverVars, san, log, ui>>

InitDebounce == InitApi

NextDebounce == Debounced \/ TimerFires \/ FnSettles \/ ClockTick

SpecDebounce == InitDebounce /\ [][NextDebounce]_vars

----------------------------------------------------------------------------
(* Properties *)

MaxRetryAfter == RATE_LIMIT_WINDOW_MS \div MS_PER_SECOND

\* the reply is the JSON text itself, possibly inside a code fence
IsJsonObject(reply) ==
    reply.kind = "text" /\ ~reply.prose /\ reply.json.shape = "object"

IsErrorReply(reply) == IsJsonObject(reply) /\ reply.json.status = Some("ERROR")

IsOkList(reply) ==
    IsJsonObject(reply) /\ reply.json.status = Some("OK") /\ Has(reply.json.list)

IsBareArray(reply) ==
    reply.kind = "text" /\ ~reply.prose /\ reply.json.shape = "array"

Parsing == {"mcq", "flashcards", "concept-booster"}

\* an MCQ item as the data model wants it
WellFormedMcq(item) ==
    /\ Len(item.question) > 0
    /\ Len(item.options) = 4
    /\ ToUpperCase(item.correct) \in {"A", "B", "C", "D"}

\* a success response of the mcq route holds well-formed MCQs only
McqSuccessWellFormed(r) ==
    r.resp.status = 200 =>
        \A i \in 1..Len(r.resp.items) :
           /\ Len(r.resp.items[i].options) = 4
           /\ r.resp.items[i].correct \in {"A", "B", "C", "D"}

\* the content-length header is a decimal number above max
ReportsAbove(headers, max) ==
    /\ Has(headers.cl)
    /\ Len(Get(headers.cl)) > 0
    /\ \A i \in 1..Len(Get(headers.cl)) : Get(headers.cl)[i] # "x"
    /\ DigitsValue(Get(headers.cl), 0) > max

\* C1: at every endpoint, a request that is the 11th or a later one of its
\* client within 60 seconds of the first is answered 429 with
\* retry_after <= 60 (it is never taken further).
C1_EleventhRequestRejected ==
    \A s \in DOMAIN req :
       (req[s].nth > RATE_LIMIT_MAX_REQUESTS /\ req[s].pc # "check") =>
          /\ req[s].pc = "done"
          /\ req[s].resp.status = 429
          /\ Has(req[s].resp.retry_after)
          /\ Get(req[s].resp.retry_after) <= MaxRetryAfter

\* C2: for one store, one client and a limit L, the n-th call of a window is
\* allowed exactly when n <= L, returns remaining = max(L - n, 0) and the
\* window's resetAt; until the window has passed the entry counts min(n, L)
\* calls, so the first call after resetAt starts a window with count 1.
C2_WindowCounts ==
    \A c \in Clients :
       LET w == rl.win[c]
           r == rl.last[c]
       IN  w.n > 0 =>
              /\ r.allowed <=> (w.n <= rl.limit)
              /\ r.remaining = Max(rl.limit - w.n, 0)
              /\ r.resetAt = w.start + RATE_LIMIT_WINDOW_MS
              /\ now <= w.start + RATE_LIMIT_WINDOW_MS =>
                    /\ c \in DOMAIN DirectStore
                    /\ DirectStore[c] =
                          [count |-> Min(w.n, rl.limit),
                           resetTime |-> w.start + RATE_LIMIT_WINDOW_MS]

\* a client's second window, opened after the first had passed, is used up
\* and the call after the last allowed one is denied
C2_Witness ==
    \E c \in Clients :
       /\ rl.win[c].wins = 2
       /\ rl.win[c].n = rl.limit + 1
       /\ ~rl.last[c].allowed
       /\ rl.last[c].remaining = 0

\* C3: a request answered 429, or 400 by a validation check, has made no
\* upstream call.
C3_NoUpstreamBeforeRejection ==
    \A s \in DOMAIN req :
       (/\ req[s].pc = "done"
        /\ \/ req[s].resp.status = 429
           \/ req[s].resp.status = 400 /\ req[s].resp.error \in ValidationErrors)
       => req[s].upstreamCalls = 0

C3_Witness ==
    \E s \in DOMAIN req :
       /\ req[s].pc = "done"
       /\ req[s].ep = "mcq"
       /\ req[s].resp.status = 400
       /\ req[s].resp.error = ErrNumQuestions
       /\ req[s].validated
       /\ req[s].upstreamCalls = 0

ExaminedItems(r) ==
    LET list == Get(r.reply.json.list)
    IN  IF IsBareArray(r.reply)
        THEN SubSeq(list, 1, Min(Len(list), r.numQuestions))
        ELSE list

HasBothSides(card) == Trim(card.front) # <<>> /\ Trim(card.back) # <<>>
Sides(cards) ==
    [i \in 1..Len(cards) |-> <<Trim(cards[i].front), Trim(cards[i].back)>>]

\* C5: a status-OK reply of n cards, k of them with an empty side after
\* trimming and n - k >= 1, gives a success holding the other n - k cards in
\* their order, with total_cards = n - k.
C5_FlashcardsLenient ==
    \A s \in DOMAIN req :
       LET r == req[s]
           kept == SelectSeq(Get(r.reply.json.list), HasBothSides)
       IN  (/\ r.pc = "done" /\ r.ep = "flashcards"
            /\ IsOkList(r.reply)
            /\ Len(kept) >= 1)
           => /\ r.resp.status = 200
              /\ Sides(r.resp.items) = Sides(kept)
              /\ r.resp.total_cards = Len(kept)

\* two cards, the second without a back: one card comes back
C5_Witness ==
    \E s \in DOMAIN req :
       /\ req[s].pc = "done"
       /\ req[s].ep = "flashcards"
       /\ IsOkList(req[s].reply)
       /\ Len(Get(req[s].reply.json.list)) = 2
       /\ Get(req[s].reply.json.list)[2].back = <<>>
       /\ req[s].resp.status = 200
       /\ req[s].resp.total_cards = 1

\* C6: in mcq, flashcards and concept-booster, a reply with status ERROR,
\* error_code INSUFFICIENT_CONTEXT and a message is answered 400 with that
\* error_code and that message.
C6_InsufficientContext ==
    \A s \in DOMAIN req :
       LET r == req[s]
       IN  (/\ r.pc = "done" /\ r.ep \in Parsing
            /\ IsErrorReply(r.reply)
            /\ r.reply.json.error_code = Some(InsufficientContext)
            /\ Has(r.reply.json.message) /\ Get(r.reply.json.message) # "")
           => /\ r.resp.status = 400
              /\ r.resp.error_code = Some(InsufficientContext)
              /\ r.resp.error = Get(r.reply.json.message)

C6_Witness ==
    \E s \in DOMAIN req :
       /\ req[s].pc = "done"
       /\ req[s].ep = "flashcards"
       /\ IsErrorReply(req[s].reply)
       /\ req[s].reply.fence = "json"
       /\ req[s].reply.json.error_code = Some(InsufficientContext)
       /\ req[s].reply.json.message = Some("no facts in the text")
       /\ req[s].resp.status = 400
       /\ req[s].resp.error = "no facts in the text"

\* C7: a reply with status ERROR is answered 4xx only when its error_code is
\* INSUFFICIENT_CONTEXT, and 5xx when the code is another one or is missing.
C7_ErrorCodeMapping ==
    \A s \in DOMAIN req :
       LET r == req[s]
       IN  (r.pc = "done" /\ r.ep \in Parsing /\ IsErrorReply(r.reply)) =>
              IF r.reply.json.error_code = Some(InsufficientContext)
              THEN r.resp.status \in 400..499
              ELSE r.resp.status \in 500..599

\* C8: a request whose text, once cleaned, is longer than the endpoint's
\* maximum is answered 400 and never goes upstream.
C8_OverLengthRejected ==
    \A s \in DOMAIN req :
       LET r == req[s]
       IN  (/\ r.ep \in Parsing /\ r.jsonOk
            /\ Cleaned(r.body.text).len > MaxTextLength(r.ep))
           => /\ r.upstreamCalls = 0
              /\ (r.pc = "done" /\ r.validated) => r.resp.status = 400

\* C9: an mcq request that supplies a num_questions outside 1..50 is
\* answered 400 and never goes upstream.
C9_NumQuestionsInRange ==
    \A s \in DOMAIN req :
       LET r == req[s]
       IN  (/\ r.ep = "mcq" /\ r.jsonOk
            /\ Has(r.body.num_questions)
            /\ \/ Get(r.body.num_questions) < MIN_NUM_QUESTIONS
               \/ Get(r.body.num_questions) > MAX_NUM_QUESTIONS)
           => /\ r.upstreamCalls = 0
              /\ (r.pc = "done" /\ r.validated) => r.resp.status = 400

\* C10: an mcq request that passed the rate limit and reports a
\* content-length above 15000 is answered 413 with the body not read, the
\* validator not run and no upstream call made.
C10_PayloadTooLargeFirst ==
    \A s \in DOMAIN req :
       LET r == req[s]
       IN  (/\ r.ep = "mcq" /\ r.pc \notin {"idle", "check"}
            /\ r.rate.allowed
            /\ ReportsAbove(r.headers, MCQ_MAX_REQUEST_SIZE))
           => /\ r.pc = "done"
              /\ r.resp.status = 413
              /\ ~r.jsonParsed
              /\ ~r.validated
              /\ r.upstreamCalls = 0

C10_Witness ==
    \E s \in DOMAIN req :
       /\ req[s].ep = "mcq"
       /\ req[s].pc = "done"
       /\ req[s].headers.cl = Some(<<"1", "6", "0", "0", "0">>)
       /\ req[s].resp.status = 413
       /\ ~req[s].jsonParsed

\* C11: a success response of the mcq route holds exactly as many MCQs as
\* the request's num_questions, whatever the number of items in the reply.
C11_CountIsNumQuestions ==
    \A s \in DOMAIN req :
       LET r == req[s]
       IN  (/\ r.pc = "done" /\ r.ep = "mcq" /\ r.resp.status = 200
            /\ Has(r.body.num_questions))
           => Len(r.resp.items) = Get(r.body.num_questions)

\* C12: the model identifier sent upstream is the task's configured model or
\* a request-supplied identifier of the allow-listed set.
C12_ModelAllowListed ==
    \A s \in DOMAIN req :
       LET r == req[s]
       IN  r.upstreamCalls > 0 =>
              \/ r.model = getModel(TaskOf(r.ep), env)
              \/ /\ Has(r.body.model)
                 /\ r.model = Get(r.body.model)
                 /\ r.model \in AVAILABLE_MODELS

\* error values of either kind, with different texts
ErrorValues ==
    {ErrorOf(m) : m \in UpstreamErrors \cup {ErrNoLlmResponse, ErrMcqParse, ErrParse}}
    \cup {NonError("thrown string"), NonError("")}

\* C13: outside development mode toSafeError returns the caller's default
\* message for every error value, and the response the catch block builds
\* is the same whatever the text of the error that reached it.
C13_GenericMessage ==
    ~env.development =>
       /\ \A err \in ErrorValues, ep \in Endpoints :
             toSafeError(err, DefaultMessage(ep), env).message = DefaultMessage(ep)
       /\ \A s \in DOMAIN req :
             (req[s].pc = "done" /\ Has(req[s].resp.thrown)) =>
                [req[s].resp EXCEPT !.thrown = Absent] =
                   [NoResponse EXCEPT !.status = 500,
                                      !.error = DefaultMessage(req[s].ep),
                                      !.code = "INTERNAL_ERROR"]

\* an upstream failure outside development mode
C13_Witness ==
    \E s \in DOMAIN req :
       /\ ~env.development
       /\ req[s].pc = "done"
       /\ req[s].resp.thrown = Some(ErrorOf("fetch failed"))
       /\ req[s].resp.error = DefaultMessage(req[s].ep)

\* C14: sanitizeInput is idempotent: sanitizing the result again, with the
\* same options, gives the result.
C14_SanitizeIdempotent == san.pc = "twice" => san.twice = san.once

\* a property of the JSON value under key, or of an object inside it, has a
\* sensitive key and a value other than the redaction marker
RECURSIVE Unredacted(_, _)
Unredacted(key, value) ==
    \/ SensitiveKey(key) /\ value # Redacted
    \/ /\ value.t = "object"
       /\ \E i \in 1..Len(value.props) :
             Unredacted(value.props[i][1], value.props[i][2])

\* C15: in the line logError writes, every key that contains password,
\* secret, key, token or auth in any letter case, at any depth of the
\* payload, carries the redaction marker, whatever the type of its value.
C15_SensitiveKeysRedacted ==
    log.pc = "written" => ~Unredacted(<<>>, log.line)

\* C16: for every sequence of check calls, RedisRateLimiter returns the
\* allowed and remaining values that one MemoryRateLimiter instance returns
\* for the same calls at the same times.
C16_RedisAsMemory ==
    \A c \in Clients :
       rl.impl = "redis" /\ rl.win[c].n > 0 =>
          /\ rl.last[c].allowed = rl.ref[c].allowed
          /\ rl.last[c].remaining = rl.ref[c].remaining

\* the handler of the request in slot s is suspended at an await
Suspended(s) == req[s].pc \in {"json", "completion"}

\* C17: with several requests of one client handled at the same time, their
\* handlers interleaving at the awaits only, each check reads and updates the
\* client's entry in one step: while the window is open the entry counts
\* min(n, limit) of the n requests that came, and only the first limit
\* requests of a window are allowed.
C17_CheckIsAtomic ==
    /\ \A s \in DOMAIN req :
          (req[s].pc # "idle" /\ req[s].ep = "flashcards") =>
             (req[s].rate.allowed <=> req[s].nth <= RATE_LIMIT_MAX_REQUESTS)
    /\ \A k \in DOMAIN arrivals :
          (k[1] = "flashcards" /\ now <= arrivals[k].start + RATE_LIMIT_WINDOW_MS) =>
             /\ k[2] \in DOMAIN flashStore
             /\ flashStore[k[2]].count =
                   Min(arrivals[k].n, RATE_LIMIT_MAX_REQUESTS)

\* the request after the last allowed one is denied while an earlier request
\* of the same window is still suspended at an await
C17_Witness ==
    \E s, u \in DOMAIN req :
       /\ s # u
       /\ req[s].ep = "flashcards"
       /\ req[s].pc = "done"
       /\ req[s].nth = RATE_LIMIT_MAX_REQUESTS + 1
       /\ ~req[s].rate.allowed
       /\ Suspended(u)
       /\ req[u].nth <= RATE_LIMIT_MAX_REQUESTS
       /\ req[u].rate.resetAt = req[s].rate.resetAt

\* the step that may be requested from the screen of step from
Follows(from, step) ==
    \/ from = "" /\ step = "diagnostic"
    \/ from = "diagnostic" /\ step = "explanation"
    \/ from = "explanation" /\ step \in {"ask_doubts", "check_understanding"}
    \/ from = "ask_doubts" /\ step \in {"ask_doubts", "check_understanding"}
    \/ from = "check_understanding" /\ step = "practice"
    \/ from = "practice" /\ step = "feedback"

\* C18: the page requests steps along diagnostic, explanation, (ask_doubts,
\* repeatable), check_understanding, practice, feedback only: the
\* understanding-check button of the explanation and of the doubts screen
\* requests check_understanding, and submitting the understanding check
\* requests practice.
C18_StepOrder ==
    ui.sent # "" /\ ui.by # "handleStart" =>
       /\ Follows(ui.from, ui.sent)
       /\ (ui.by = "handleUnderstandingSubmit"
             /\ ui.from \in {"explanation", "ask_doubts"})
          => ui.sent = "check_understanding"
       /\ (ui.by = "handleUnderstandingSubmit" /\ ui.from = "check_understanding")
          => ui.sent = "practice"

\* the calls with requestId whose requestFn has not settled and whose
\* controller has not been aborted
Live(requestId) ==
    {c \in 1..Len(api.calls) :
        /\ api.calls[c].id = requestId
        /\ api.calls[c].state = "inflight"
        /\ ~api.calls[c].aborted}

\* C19: whatever the order of makeRequest calls with one requestId and of
\* their completions and abort rejections, at most one request with that id
\* is in flight and not aborted: a new request aborts every earlier one with
\* its id that has not settled.
C19_OneLiveRequest ==
    \A requestId \in RequestIds : Cardinality(Live(requestId)) <= 1

\* the completion of request r threw, was empty, or held a text that the
\* route's parser rejects
CompletionFailed(r) ==
    \/ r.reply.kind \in {"throw", "empty"}
    \/ /\ r.ep \in Parsing
       /\ r.reply.kind = "text"
       /\ ~(IF r.ep = "concept-booster" THEN BraceParse(r.reply)
            ELSE FenceParse(r.reply)).ok

\* C20: a request makes at most one upstream completion call; after an
\* upstream error, an empty completion or a reply that does not parse, it
\* ends with an error response and no second call.
C20_SingleUpstreamCall ==
    \A s \in DOMAIN req :
       /\ req[s].upstreamCalls <= 1
       /\ (req[s].upstreamCalls > 0 /\ req[s].pc # "llm") =>
             /\ req[s].pc = "done"
             /\ CompletionFailed(req[s]) =>
                   /\ req[s].resp.status = 500
                   /\ req[s].resp.error # ""

\* a reply that is not JSON has ended the request after its one call
C20_Witness ==
    \E s \in DOMAIN req :
       /\ req[s].pc = "done"
       /\ req[s].ep = "mcq"
       /\ req[s].reply.kind = "text"
       /\ req[s].reply.json.shape = "garbage"
       /\ req[s].upstreamCalls = 1
       /\ req[s].resp.status = 500

\* C21: every card of a successful flashcards response has a type among
\* concept, application and trick, and a front and a back that are not
\* empty, whatever types the reply carried.
C21_CardsWellTyped ==
    \A s \in DOMAIN req :
       (req[s].pc = "done" /\ req[s].ep = "flashcards" /\ req[s].resp.status = 200)
       => \A i \in 1..Len(req[s].resp.items) :
             /\ req[s].resp.items[i].type \in {"concept", "application", "trick"}
             /\ req[s].resp.items[i].front # <<>>
             /\ req[s].resp.items[i].back # <<>>

\* C22: in every endpoint the missing-credential check comes after input
\* validation, right before the upstream call: the 500 configuration error
\* is given only to a request whose body was read and passed validation.
C22_CredentialCheckedLast ==
    \A s \in DOMAIN req :
       (/\ req[s].pc = "done"
        /\ req[s].resp.status = 500
        /\ req[s].resp.error = ErrNoKey)
       => /\ req[s].jsonParsed
          /\ req[s].validated
          /\ req[s].upstreamCalls = 0

\* C23: the window is fixed, not sliding.  A check made at now <= resetAt,
\* allowed or denied, leaves the entry's resetAt as it was and returns it; an
\* entry gets another resetAt only from a check made at now > resetAt, which
\* stores a fresh entry with count 1 and resetAt = now + windowMs, as does
\* the first check of a client.
C23_FixedWindow ==
    [][\A c \in Clients :
          LET had == c \in DOMAIN DirectStore
              has == c \in DOMAIN DirectStore'
              called == rl'.win[c] # rl.win[c]
              fresh == [count |-> 1, resetTime |-> now + RATE_LIMIT_WINDOW_MS]
          IN  /\ (had /\ now <= DirectStore[c].resetTime) =>
                    /\ has
                    /\ DirectStore'[c].resetTime = DirectStore[c].resetTime
                    /\ called => rl'.last[c].resetAt = DirectStore[c].resetTime
              /\ (had /\ has /\ DirectStore'[c].resetTime # DirectStore[c].resetTime) =>
                    /\ now > DirectStore[c].resetTime
                    /\ called
                    /\ DirectStore'[c] = fresh
                    /\ rl'.last[c] = [allowed |-> TRUE, remaining |-> rl.limit - 1,
                                      resetAt |-> fresh.resetTime]
              /\ (~had /\ has) => called /\ DirectStore'[c] = fresh
      ]_vars

\* in a client's second window, some time after its first request, a check
\* is denied and returns the end of that window
C23_Witness ==
    \E c \in Clients :
       /\ rl.impl = "concept-booster"
       /\ rl.win[c].wins = 2
       /\ now > rl.win[c].start
       /\ ~rl.last[c].allowed
       /\ rl.last[c].resetAt = rl.win[c].start + RATE_LIMIT_WINDOW_MS
       /\ DirectStore[c].resetTime = rl.last[c].resetAt

\* C24: requests without a forwarded-for and without a real-ip header are
\* counted against the one entry "unknown", so once the limit of them has
\* come in a window the next one is denied; and a check for one client
\* identifier changes neither the live entry of another identifier nor what
\* a check for that other identifier would answer.
C24_SharedUnknownBucket ==
    /\ [](/\ getIp(BaseClient) = UnknownIp
          /\ rl.win[UnknownIp].n >= 1 =>
                rl.last[UnknownIp].allowed = (rl.win[UnknownIp].n <= rl.limit)
          /\ (/\ rl.win[UnknownIp].n >= 1
              /\ now <= rl.win[UnknownIp].start + RATE_LIMIT_WINDOW_MS) =>
                /\ UnknownIp \in DOMAIN DirectStore
                /\ DirectStore[UnknownIp].count = Min(rl.win[UnknownIp].n, rl.limit))
    /\ [][\A c \in Clients, d \in Clients :
             (c # d /\ rl'.win[c] # rl.win[c]) =>
                /\ rl'.win[d] = rl.win[d] /\ rl'.last[d] = rl.last[d]
                /\ (d \in DOMAIN DirectStore /\ now <= DirectStore[d].resetTime) =>
                      d \in DOMAIN DirectStore' /\ DirectStore'[d] = DirectStore[d]
                /\ \A rnd \in BOOLEAN :
                      DirectOut(DirectStore', d, now, rnd).result
                         = DirectOut(DirectStore, d, now, rnd).result
        ]_vars

\* the header-less pool has just been denied its eleventh request of a window
\* while the other client, part-way through its own window, is still allowed
C24_Witness ==
    /\ rl.limit = RATE_LIMIT_MAX_REQUESTS
    /\ rl.win[UnknownIp].n = RATE_LIMIT_MAX_REQUESTS + 1
    /\ ~rl.last[UnknownIp].allowed
    /\ rl.win[<<"a">>].n \in 1..RATE_LIMIT_MAX_REQUESTS
    /\ rl.last[<<"a">>].allowed
    /\ rl.win[<<"a">>].start = rl.win[UnknownIp].start

\* C25: the random cleanup cannot be seen by the callers.  Next to an
\* instance that never runs it and is given the same checks at the same
\* times, every check returns the same allowed, remaining and resetAt; the
\* store holds every entry of that instance unchanged, except entries whose
\* resetTime is before now, which may be gone.
C25_CleanupInvisible ==
    /\ \A c \in Clients : rl.last[c] = rl.ref[c]
    /\ DOMAIN DirectStore \subseteq DOMAIN rl.plain
    /\ \A k \in DOMAIN rl.plain :
          IF k \in DOMAIN DirectStore
          THEN DirectStore[k] = rl.plain[k]
          ELSE rl.plain[k].resetTime < now

\* the entry of one client has been evicted by the check of the other, and
\* the first client has come back after that and started its next window
C25_Witness ==
    \E c \in Clients, d \in Clients :
       /\ c # d
       /\ d \notin DOMAIN DirectStore
       /\ d \in DOMAIN rl.plain
       /\ rl.win[c].wins = 2
       /\ rl.win[c].n = 2
       /\ rl.last[c].remaining = rl.limit - 2

\* C26: at the flashcards and the concept-booster endpoint the request is
\* counted before its size, its JSON and its fields are looked at: within a
\* window the client's entry counts every request up to the limit, answered
\* 413 and 400 included, and the request after the tenth is answered 429
\* however many of the ten were rejected and whatever it carries.
C26_RejectedRequestsCount ==
    /\ \A k \in DOMAIN arrivals :
          LET store == IF k[1] = "flashcards" THEN flashStore ELSE cbStore
          IN  (/\ k[1] \in {"flashcards", "concept-booster"}
               /\ now <= arrivals[k].start + RATE_LIMIT_WINDOW_MS) =>
                 /\ k[2] \in DOMAIN store
                 /\ store[k[2]].count = Min(arrivals[k].n, RATE_LIMIT_MAX_REQUESTS)
    /\ \A s \in DOMAIN req :
          LET r == req[s]
          IN  (r.pc # "idle" /\ r.ep \in {"flashcards", "concept-booster"}) =>
                 /\ r.rate.allowed = (r.nth <= RATE_LIMIT_MAX_REQUESTS)
                 /\ r.nth > RATE_LIMIT_MAX_REQUESTS =>
                       /\ r.pc = "done"
                       /\ r.resp.status = 429
                       /\ ~r.jsonParsed
                       /\ r.upstreamCalls = 0

\* ten requests of a window were answered 400 or 413, and the eleventh, a
\* valid one, is answered 429
C26_Witness ==
    \E s \in DOMAIN req :
       LET r == req[s]
           k == ArrivalKey(r.ep, r.headers)
       IN  /\ r.pc = "done"
           /\ r.ep = "concept-booster"
           /\ [headers |-> r.headers, jsonOk |-> r.jsonOk, body |-> r.body]
                 = BaseInput(r.ep, BaseClient)
           /\ r.nth = RATE_LIMIT_MAX_REQUESTS + 1
           /\ arrivals[k].rejected = RATE_LIMIT_MAX_REQUESTS
           /\ r.resp.status = 429

\* C27: the flashcards and the concept-booster route keep separate stores.
\* A request to one of them leaves the store of the other as it was, each
\* store counts the requests to its own route only, and a request is denied
\* only as the eleventh or later of its window at its own route, however
\* many the client has sent to the other route.
C27_SeparateStores ==
    /\ [][\A s \in DOMAIN req :
             /\ req'[s].ep = "flashcards" => cbStore' = cbStore
             /\ req'[s].ep = "concept-booster" => flashStore' = flashStore
             /\ req[s].pc # "idle" => (cbStore' = cbStore /\ flashStore' = flashStore)
         ]_vars
    /\ [](/\ \A k \in DOMAIN arrivals :
                LET store == IF k[1] = "flashcards" THEN flashStore ELSE cbStore
                IN  now <= arrivals[k].start + RATE_LIMIT_WINDOW_MS =>
                       /\ k[2] \in DOMAIN store
                       /\ store[k[2]].count = Min(arrivals[k].n, RATE_LIMIT_MAX_REQUESTS)
          /\ \A s \in DOMAIN req :
                req[s].pc # "idle" =>
                   req[s].rate.allowed = (req[s].nth <= RATE_LIMIT_MAX_REQUESTS))

\* the client has been denied at /api/flashcards and, in the same window, its
\* tenth request to /api/concept-booster is let through
C27_Witness ==
    \E s \in DOMAIN req :
       LET f == <<"flashcards", UnknownIp>>
       IN  /\ req[s].ep = "concept-booster"
           /\ req[s].pc = "llm"
           /\ req[s].nth = RATE_LIMIT_MAX_REQUESTS
           /\ req[s].rate.allowed
           /\ f \in DOMAIN arrivals
           /\ arrivals[f].n = RATE_LIMIT_MAX_REQUESTS + 1
           /\ now <= arrivals[f].start + RATE_LIMIT_WINDOW_MS
           /\ flashStore[UnknownIp].count = RATE_LIMIT_MAX_REQUESTS

\* C28: every 200 response of the mcq route holds at least one MCQ: a reply
\* with an empty list of questions, as the mcqs of a status-OK object or as a
\* bare top-level array, is answered with an error.
C28_SuccessHasAnMcq ==
    \A s \in DOMAIN req :
       (req[s].pc = "done" /\ req[s].ep = "mcq" /\ req[s].resp.status = 200)
       => Len(req[s].resp.items) >= 1

\* C29: of two calls of the debounced wrapper for one key made less than the
\* delay apart, the earlier one never has its fn invoked, whatever the
\* timing, also while the fn of a still earlier call is running or settles
\* between the two.
C29_EarlierCallNeverInvoked ==
    \A i \in 1..Len(api.timers), j \in 1..Len(api.timers) :
       (i < j /\ api.timers[j].at - api.timers[i].at < DEBOUNCE_DELAY)
       => api.timers[i].state \notin {"running", "settled"}

\* C30: the feedback request of the concept-booster page carries, in its
\* conversation_history, the assistant content of the practice step the page
\* received, so that the "Ideal Response" of the server's feedback prompt is
\* that content whenever the practice step came with an ideal response.
C30_FeedbackCarriesPractice ==
    (/\ ui.mode = "loading"
     /\ ui.sent = "feedback"
     /\ ui.by = "handlePracticeSubmit")
    => /\ \E i \in 1..Len(ui.history) :
             ui.history[i] = [role |-> "assistant", content |-> Get(ui.content)]
       /\ Get(ui.content).ideal => idealResponse(ui.history) = ui.content

====
